---- MODULE Spec2Model ----
(***************************************************************************)
(* FormBuilder: validation engine, derived-field recomputation pass and    *)
(* the preview session (three implementations of the preview exist in the  *)
(* repository).                                                            *)
(*                                                                         *)
(* Text that the program inspects character by character (entered values,  *)
(* labels, formulas, options) is a sequence of one-character strings.      *)
(* Text that the program only passes around (rule messages, field ids,     *)
(* rule kinds, field types) is a TLA+ string.                              *)
(***************************************************************************)
EXTENDS Integers, Sequences, FiniteSets, TLC

VARIABLES
    vField,        \* validateField input: the field
    vValue,        \* validateField input: the value
    vResult,       \* validateField output
    vDone,         \* whether validateField has been applied to the inputs
    impl,          \* which preview implementation of the repository is running
    form,          \* the FormSchema being previewed
    formData,      \* FormData: field id -> string | string[]
    formErrors,    \* FormErrors: field id -> message (keys may be missing)
    submitResult,  \* outcome of the last submit: "none", "success", "validation-errors"
    submitted,     \* the value map the last handler handed to the success path (empty if none)
    lastOp,        \* the handler that produced the current state
    lastField,     \* the field id the last handler was called with ("" if none)
    passLog,       \* what the derived pass run by the last handler did, per derived field
    app,           \* which builder of the repository is running
    currentForm,   \* the FormSchema being edited
    savedFormsStorage, \* the in-memory saved forms of DynamicFormBuilder (part_001)
    localStorage,  \* the browser store used by storage.ts: key -> JSON document
    nextId,        \* how many ids generateId has handed out, plus one
    builderOp,     \* the builder or storage operation that produced the current state
    builderResult  \* how that operation ended: "ok", "rejected" (alert), "threw", "none"

valVars == <<vField, vValue, vResult, vDone>>
sessionVars == <<impl, form, formData, formErrors, submitResult, submitted,
                 lastOp, lastField, passLog>>
builderVars == <<app, currentForm, savedFormsStorage, localStorage, nextId,
                 builderOp, builderResult>>
vars == <<vField, vValue, vResult, vDone, impl, form, formData, formErrors,
          submitResult, submitted, lastOp, lastField, passLog,
          app, currentForm, savedFormsStorage, localStorage, nextId,
          builderOp, builderResult>>

----------------------------------------------------------------------------
(* Bounds *)

MaxRules == 2       \* longest validations list enumerated for validateField
MaxFields == 2      \* most fields the form being edited has at a time

----------------------------------------------------------------------------
(* Values held in FormData: string | string[] (form.types.ts)              *)

Str(s) == [t |-> "str", s |-> s, a |-> <<>>]
Arr(a) == [t |-> "arr", s |-> <<>>, a |-> a]

Digits == {"0", "1", "2", "3", "4", "5", "6", "7", "8", "9"}
WhiteSpace == {" "}

\* JavaScript truthiness of a string | string[]: "" is falsy, every array is truthy
Truthy(value) == IF value.t = "str" THEN Len(value.s) > 0 ELSE TRUE

----------------------------------------------------------------------------
(* Validation rules                                                        *)

ValidationTypes == {"required", "minLength", "maxLength", "email", "password"}

DefaultMessage(type) ==
    CASE type = "required"  -> "This field is required"
      [] type = "minLength" -> "Minimum length not met"
      [] type = "maxLength" -> "Maximum length exceeded"
      [] type = "email"     -> "Please enter a valid email address"
      [] type = "password"  -> "Password must be at least 8 characters with a number"

\* a ValidationRule; hasValue = FALSE is an absent `value` property
Rule(type, hasValue, value, message) ==
    [type |-> type, hasValue |-> hasValue, value |-> value, message |-> message]

\* (rule.value || 0)
RuleValueOrZero(rule) == IF rule.hasValue /\ rule.value # 0 THEN rule.value ELSE 0

\* validateRequired without its test of the array length
validateRequired_stringOnly(rule, value) ==
    IF ~Truthy(value)
    THEN rule.message ELSE ""

validateRequired(rule, value) ==
    IF ~Truthy(value) \/ (value.t = "arr" /\ Len(value.a) = 0)
    THEN rule.message ELSE ""

\* validateMinLength without its typeof test: value.length of an array is
\* its number of elements
validateMinLength_anyLength(rule, value) ==
    IF (IF value.t = "str" THEN Len(value.s) ELSE Len(value.a)) < RuleValueOrZero(rule)
    THEN rule.message ELSE ""

validateMinLength(rule, value) ==
    IF value.t = "str" /\ Len(value.s) < RuleValueOrZero(rule)
    THEN rule.message ELSE ""

\* validateMaxLength that compares with >= instead of >
validateMaxLength_inclusive(rule, value) ==
    IF value.t = "str" /\ Len(value.s) >= RuleValueOrZero(rule)
    THEN rule.message ELSE ""

validateMaxLength(rule, value) ==
    IF value.t = "str" /\ Len(value.s) > RuleValueOrZero(rule)
    THEN rule.message ELSE ""

\* [^\s@]+ matches the whole of s[from..to]
NoSpaceAtRun(s, from, to) ==
    /\ from <= to
    /\ \A k \in from..to : s[k] \notin WhiteSpace /\ s[k] # "@"

\* /^[^\s@]+@[^\s@]+\.[^\s@]+$/.test(s)
EmailRegexTest(s) ==
    \E i \in 1..Len(s) : \E j \in 1..Len(s) :
        /\ s[i] = "@"
        /\ s[j] = "."
        /\ i < j
        /\ NoSpaceAtRun(s, 1, i - 1)
        /\ NoSpaceAtRun(s, i + 1, j - 1)
        /\ NoSpaceAtRun(s, j + 1, Len(s))

\* validateEmail without its `value &&` guard
validateEmail_noEmptyGuard(rule, value) ==
    IF value.t = "str" /\ ~EmailRegexTest(value.s)
    THEN rule.message ELSE ""

\* validateEmail whose pattern ends after the domain: /^[^\s@]+@[^\s@]+$/
validateEmail_noTld(rule, value) ==
    IF /\ value.t = "str"
       /\ Truthy(value)
       /\ ~(\E i \in 1..Len(value.s) :
              /\ value.s[i] = "@"
              /\ NoSpaceAtRun(value.s, 1, i - 1)
              /\ NoSpaceAtRun(value.s, i + 1, Len(value.s)))
    THEN rule.message ELSE ""

validateEmail(rule, value) ==
    IF value.t = "str" /\ Truthy(value) /\ ~EmailRegexTest(value.s)
    THEN rule.message ELSE ""

\* /\d/.test(s)
HasDigit(s) == \E k \in 1..Len(s) : s[k] \in Digits

validatePassword(rule, value) ==
    IF value.t = "str" /\ Truthy(value) /\ (Len(value.s) < 8 \/ ~HasDigit(value.s))
    THEN rule.message ELSE ""

validateRule(rule, value) ==
    CASE rule.type = "required"  -> validateRequired(rule, value)
      [] rule.type = "minLength" -> validateMinLength(rule, value)
      [] rule.type = "maxLength" -> validateMaxLength(rule, value)
      [] rule.type = "email"     -> validateEmail(rule, value)
      [] rule.type = "password"  -> validatePassword(rule, value)
      [] OTHER                   -> ""

\* validateField that keeps looping and reports the last failing rule
RECURSIVE validateFieldFrom_lastError(_, _, _)
validateFieldFrom_lastError(validations, value, i) ==
    IF i > Len(validations) THEN ""
    ELSE LET later == validateFieldFrom_lastError(validations, value, i + 1)
         IN  IF later # "" THEN later
             ELSE validateRule(validations[i], value)

\* the for loop of validateField from rule index i on; `if (error)` is a
\* truthiness test, so an empty message does not stop the loop
RECURSIVE validateFieldFrom(_, _, _)
validateFieldFrom(validations, value, i) ==
    IF i > Len(validations) THEN ""
    ELSE LET error == validateRule(validations[i], value)
         IN  IF error # "" THEN error
             ELSE validateFieldFrom(validations, value, i + 1)

\* validateField that also rejects the empty value of a field flagged required
validateField_requiredFlag(field, value) ==
    IF field.required /\ value = Str(<<>>)
    THEN "This field is required"
    ELSE validateFieldFrom(field.validations, value, 1)

validateField(field, value) == validateFieldFrom(field.validations, value, 1)

\* validateForm without its `if (error)`: every field gets a key
validateForm_keepsEmpty(fields, data) ==
    LET ids == {fields[i].id : i \in 1..Len(fields)}
        fieldOf(id) == fields[CHOOSE i \in 1..Len(fields) : fields[i].id = id]
    IN  [id \in ids |-> validateField(fieldOf(id), data[id])]

\* validateForm whose loop starts one field late
validateForm_skipsFirst(fields, data) ==
    LET ids == {fields[i].id : i \in 2..Len(fields)}
        fieldOf(id) == fields[CHOOSE i \in 1..Len(fields) : fields[i].id = id]
    IN  [id \in {x \in ids : validateField(fieldOf(x), data[x]) # ""} |->
            validateField(fieldOf(id), data[id])]

\* validateForm: the errors object has a key exactly for the fields in error
validateForm(fields, data) ==
    LET ids == {fields[i].id : i \in 1..Len(fields)}
        fieldOf(id) == fields[CHOOSE i \in 1..Len(fields) : fields[i].id = id]
    IN  [id \in {x \in ids : validateField(fieldOf(x), data[x]) # ""} |->
            validateField(fieldOf(id), data[id])]

\* Object.values(errors).some(error => error !== '')
hasErrors(errors) == \E id \in DOMAIN errors : errors[id] # ""

----------------------------------------------------------------------------
(* Inputs of the validateField specification                               *)

Thresholds == {-1, 0, 1, 3}

RulePool ==
    {Rule(type, FALSE, 0, m) :
        type \in {"required", "email", "password"},
        m \in {"This field is required", "Please enter a valid email address",
               "Password must be at least 8 characters with a number", ""}}
    \cup
    {Rule(type, hv, v, m) :
        type \in {"minLength", "maxLength"}, hv \in BOOLEAN, v \in Thresholds,
        m \in {"Minimum length not met", "Maximum length exceeded", ""}}

\* a rule as addValidation creates it, its message and threshold possibly
\* edited afterwards through updateValidation, and a minLength or maxLength
\* rule without the optional `value` property (value?: number)
ReachableRule(r) ==
    /\ r.message \in {DefaultMessage(r.type), ""}
    /\ (~r.hasValue) => (r.value = 0)
    /\ r.hasValue => r.type \in {"minLength", "maxLength"}

Rules == {r \in RulePool : ReachableRule(r)}

RECURSIVE RuleListsOfLen(_)
RuleListsOfLen(n) ==
    IF n = 0 THEN {<<>>}
    ELSE {Append(l, r) : l \in RuleListsOfLen(n - 1), r \in Rules}

\* addValidation rejects a kind already present
DistinctKinds(l) == \A i, j \in 1..Len(l) : i # j => l[i].type # l[j].type

RuleLists == {l \in UNION {RuleListsOfLen(n) : n \in 0..MaxRules} : DistinctKinds(l)}

ValFields == {[validations |-> l] : l \in RuleLists}

ValValues ==
    { Str(<<>>), Str(<<"a">>), Str(<<"a", "b">>), Str(<<"a", "b", "c">>),
      Str(<<"a", "b", "c", "d">>),
      Str(<<"a", "@", "b", ".", "c", "o", "m">>), Str(<<"a", "@", "b">>),
      Str(<<"a", "b", "c", "d", "e", "f", "g", "1">>),
      Str(<<"a", "b", "c", "d", "e", "f", "g", "h">>),
      Str(<<"1", "2", "3">>),
      Str(<<"a", "@", "b", ".">>), Str(<<"@", "b", ".", "c">>),
      Str(<<"a", " ", "@", "b", ".", "c">>), Str(<<"a", "@", "b", "@", "c", ".", "d">>),
      Str(<<"a", ".", "b", "@", "c", ".", "d", ".", "e">>),
      Arr(<<>>), Arr(<<<<"a">>>>) }

----------------------------------------------------------------------------
(* Specification of validateField as a pure function                       *)

\* no builder is running: the empty form, nothing stored
BuilderIdle ==
    /\ app = "FormBuilder.ts"
    /\ currentForm = [id |-> "", name |-> "", fields |-> <<>>]
    /\ savedFormsStorage = <<>>
    /\ localStorage = [k \in {} |-> <<>>]
    /\ nextId = 1
    /\ builderOp = "init"
    /\ builderResult = "none"

InitValidate ==
    /\ vField \in ValFields
    /\ vValue \in ValValues
    /\ vResult = ""
    /\ vDone = FALSE
    /\ impl = "FormPreview.ts"
    /\ form = [fields |-> <<>>]
    /\ formData = [id \in {} |-> ""]
    /\ formErrors = [id \in {} |-> ""]
    /\ submitResult = "none"
    /\ submitted = [id \in {} |-> ""]
    /\ lastOp = "init"
    /\ lastField = ""
    /\ passLog = {}
    /\ BuilderIdle

ApplyValidateField ==
    /\ ~vDone
    /\ vResult' = validateField(vField, vValue)
    /\ vDone' = TRUE
    /\ UNCHANGED <<vField, vValue>>
    /\ UNCHANGED sessionVars
    /\ UNCHANGED builderVars

NextValidate == ApplyValidateField

SpecValidate == InitValidate /\ [][NextValidate]_vars

----------------------------------------------------------------------------
(* Numbers and their text.  The evaluator and the coercions are modelled   *)
(* on the integer fragment of JavaScript numbers: decimal integer          *)
(* literals, unary and binary + and -, binary * and parentheses.  The      *)
(* value, label and formula pools below contain no decimal point, no       *)
(* exponent, no division and no hexadecimal or Infinity spelling.          *)

DigitVal(c) ==
    CASE c = "0" -> 0 [] c = "1" -> 1 [] c = "2" -> 2 [] c = "3" -> 3
      [] c = "4" -> 4 [] c = "5" -> 5 [] c = "6" -> 6 [] c = "7" -> 7
      [] c = "8" -> 8 [] c = "9" -> 9

DigitChar(d) ==
    CASE d = 0 -> "0" [] d = 1 -> "1" [] d = 2 -> "2" [] d = 3 -> "3"
      [] d = 4 -> "4" [] d = 5 -> "5" [] d = 6 -> "6" [] d = 7 -> "7"
      [] d = 8 -> "8" [] d = 9 -> "9"

\* a JavaScript number of the fragment: NaN or an integer
NaN == [nan |-> TRUE, n |-> 0]
Num(n) == [nan |-> FALSE, n |-> n]

RECURSIVE NatToString(_)
NatToString(n) ==
    IF n < 10 THEN <<DigitChar(n)>>
    ELSE Append(NatToString(n \div 10), DigitChar(n % 10))

\* Number.prototype.toString()
NumberToString(x) ==
    IF x.nan THEN <<"N", "a", "N">>
    ELSE IF x.n < 0 THEN <<"-">> \o NatToString(0 - x.n)
    ELSE NatToString(x.n)

RECURSIVE DigitsValue(_, _, _)
\* the value of the digit run s[from..to]
DigitsValue(s, from, to) ==
    IF from > to THEN 0
    ELSE DigitsValue(s, from, to - 1) * 10 + DigitVal(s[to])

\* first index >= i of s that is not white space (Len(s) + 1 if none)
RECURSIVE SkipSpace(_, _)
SkipSpace(s, i) ==
    IF i <= Len(s) /\ s[i] \in WhiteSpace THEN SkipSpace(s, i + 1) ELSE i

\* last index <= i of s that is not white space (0 if none)
RECURSIVE SkipSpaceBack(_, _)
SkipSpaceBack(s, i) ==
    IF i >= 1 /\ s[i] \in WhiteSpace THEN SkipSpaceBack(s, i - 1) ELSE i

\* first index >= i of s that is not a digit (Len(s) + 1 if none)
RECURSIVE SkipDigits(_, _)
SkipDigits(s, i) ==
    IF i <= Len(s) /\ s[i] \in Digits THEN SkipDigits(s, i + 1) ELSE i

\* Number(s) for a string: white space is trimmed, the empty string is 0,
\* a signed digit run is its value, anything else is NaN
StringToNumber(s) ==
    LET from == SkipSpace(s, 1)
        to   == SkipSpaceBack(s, Len(s))
    IN  IF from > to THEN Num(0)
        ELSE LET signed == s[from] \in {"+", "-"}
                 d      == IF signed THEN from + 1 ELSE from
             IN  IF d <= to /\ SkipDigits(s, d) = to + 1
                 THEN Num((IF s[from] = "-" THEN -1 ELSE 1) * DigitsValue(s, d, to))
                 ELSE NaN

\* parseFloat(s): leading white space is skipped and the longest signed
\* digit run is parsed; NaN when there is none
parseFloat(s) ==
    LET from   == SkipSpace(s, 1)
        signed == from <= Len(s) /\ s[from] \in {"+", "-"}
        d      == IF signed THEN from + 1 ELSE from
        e      == SkipDigits(s, d)
    IN  IF e = d THEN NaN
        ELSE Num((IF signed /\ s[from] = "-" THEN -1 ELSE 1) * DigitsValue(s, d, e - 1))

\* Array.prototype.join(',')
RECURSIVE JoinComma(_)
JoinComma(a) ==
    IF Len(a) = 0 THEN <<>>
    ELSE IF Len(a) = 1 THEN a[1]
    ELSE a[1] \o <<",">> \o JoinComma(Tail(a))

\* String(value)
ToStringValue(value) == IF value.t = "str" THEN value.s ELSE JoinComma(value.a)

\* isNaN(Number(fieldValue)) ? 0 : parseFloat(String(fieldValue))
NumericValue(fieldValue) ==
    IF StringToNumber(ToStringValue(fieldValue)).nan THEN Num(0)
    ELSE parseFloat(ToStringValue(fieldValue))

----------------------------------------------------------------------------
(* Regular expressions built from labels                                   *)

RegexMetaChars == {".", "*", "+", "?", "^", "$", "{", "}", "(", ")", "|", "[", "]", "\\"}

\* f.label.replace(/[.*+?^${}()|[\]\\]/g, '\\$&')           (part_001)
EscapeChar(c) == IF c \in RegexMetaChars THEN <<"\\", c>> ELSE <<c>>

RECURSIVE escapedLabel(_)
escapedLabel(label) ==
    IF Len(label) = 0 THEN <<>>
    ELSE EscapeChar(label[1]) \o escapedLabel(Tail(label))

\* the replacement text of the escape in the FormPreview class (part_002)
BrokenEscape ==
    << "\\", "#", "#", "#", " ", "C", "o", "n", "t", "i", "n", "u", "e", " ",
       "w", "i", "t", "h", " ", "r", "e", "m", "a", "i", "n", "i", "n", "g", " ",
       "f", "i", "l", "e", "s", ".", ".", "." >>

\* f.label.replace(/[.*+?^${}()|[\]\\]/g, '\\### Continue with remaining files...')
EscapeCharPreview(c) == IF c \in RegexMetaChars THEN BrokenEscape ELSE <<c>>
RECURSIVE escapedLabelPreview(_)
escapedLabelPreview(label) ==
    IF Len(label) = 0 THEN <<>>
    ELSE EscapeCharPreview(label[1]) \o escapedLabelPreview(Tail(label))

Lit(c) == [k |-> "lit", c |-> c]
AnyChar == [k |-> "any", c |-> ""]

EscapeMark == [k |-> "escape", c |-> ""]

\* new RegExp(source): the atoms of the pattern.  \c is the character c, an
\* unescaped . is any character, every other character stands for itself
\* (the sources built above contain no other unescaped metacharacter).  A
\* character is escaped when an odd number of backslashes precedes it.
RegExpAtoms(source) ==
    LET run(p) == CHOOSE n \in 0..(p - 1) :
                     /\ \A j \in 1..n : source[p - j] = "\\"
                     /\ (n = p - 1 \/ source[p - n - 1] # "\\")
        atom(p) == IF run(p) % 2 = 1 THEN Lit(source[p])
                   ELSE IF source[p] = "\\" /\ p < Len(source) THEN EscapeMark
                   ELSE IF source[p] = "." THEN AnyChar
                   ELSE Lit(source[p])
    IN  SelectSeq([p \in 1..Len(source) |-> atom(p)], LAMBDA a : a.k # "escape")

\* the pattern matches text at index i
MatchesAt(atoms, text, i) ==
    /\ i + Len(atoms) - 1 <= Len(text)
    /\ \A k \in 1..Len(atoms) :
          atoms[k].k = "any" \/ atoms[k].c = text[i + k - 1]

\* text.replace(new RegExp(source, 'g'), replacement) from index i on:
\* leftmost matches, left to right, not overlapping; an empty pattern
\* matches before every character and at the end
RECURSIVE ReplaceFrom(_, _, _, _)
ReplaceFrom(text, atoms, replacement, i) ==
    IF i > Len(text)
    THEN (IF Len(atoms) = 0 THEN replacement ELSE <<>>)
    ELSE IF MatchesAt(atoms, text, i)
         THEN IF Len(atoms) = 0
              THEN replacement \o <<text[i]>> \o ReplaceFrom(text, atoms, replacement, i + 1)
              ELSE replacement \o ReplaceFrom(text, atoms, replacement, i + Len(atoms))
         ELSE <<text[i]>> \o ReplaceFrom(text, atoms, replacement, i + 1)

ReplaceAll(text, source, replacement) ==
    ReplaceFrom(text, RegExpAtoms(source), replacement, 1)

----------------------------------------------------------------------------
(* Evaluation of a substituted formula                                     *)

FormulaChars == Digits \cup {"+", "-", "*", "/", "(", ")", ".", " "}

\* /^[\d+\-*/(). ]+$/.test(formula)
WhitelistTest(formula) ==
    /\ Len(formula) > 0
    /\ \A k \in 1..Len(formula) : formula[k] \in FormulaChars

TokNum(n)  == [k |-> "num", n |-> n, s |-> ""]
TokOp(s)   == [k |-> "op",  n |-> 0, s |-> s]
TokBad     == [k |-> "bad", n |-> 0, s |-> ""]

\* the tokens of the text from index i on.  ++ and -- are single tokens; in
\* strict mode a digit run of two or more digits starting with 0 is not a
\* literal; a character that starts no token of the fragment is "bad"
RECURSIVE Tokens(_, _)
Tokens(text, i) ==
    LET Number(j, e) ==
            (IF e - j >= 2 /\ text[j] = "0"
             THEN <<TokBad>>
             ELSE <<TokNum(DigitsValue(text, j, e - 1))>>) \o Tokens(text, e)
        Rest(tok, j) == <<tok>> \o Tokens(text, j)
        From(j) ==
            IF j > Len(text) THEN <<>>
            ELSE IF text[j] \in Digits
            THEN Number(j, SkipDigits(text, j))
            ELSE IF text[j] \in {"+", "-"} /\ j < Len(text) /\ text[j + 1] = text[j]
            THEN Rest(TokOp(<<text[j], text[j]>>), j + 2)
            ELSE Rest(IF text[j] \in {"+", "-", "*", "(", ")"}
                      THEN TokOp(<<text[j]>>) ELSE TokBad,
                      j + 1)
    IN  From(SkipSpace(text, i))

\* parse results: the value and the index of the next token, or a SyntaxError
Ok(v, p) == [ok |-> TRUE, v |-> v, p |-> p]
Err == [ok |-> FALSE, v |-> 0, p |-> 0]

IsOp(toks, p, s) == p <= Len(toks) /\ toks[p].k = "op" /\ toks[p].s = s

RECURSIVE ParseAdditive(_, _), ParseAdditiveRest(_, _), ParseMultiplicative(_, _),
          ParseMultiplicativeRest(_, _), ParseUnary(_, _), ParsePrimary(_, _)

\* PrimaryExpression: a literal or a parenthesised expression
ParsePrimary(toks, p) ==
    LET Close(inner) ==
            IF inner.ok /\ IsOp(toks, inner.p, <<")">>)
            THEN Ok(inner.v, inner.p + 1)
            ELSE Err
    IN  IF p > Len(toks) THEN Err
        ELSE IF toks[p].k = "num" THEN Ok(toks[p].n, p + 1)
        ELSE IF IsOp(toks, p, <<"(">>) THEN Close(ParseAdditive(toks, p + 1))
        ELSE Err

\* UnaryExpression: + and - prefixes
ParseUnary(toks, p) ==
    LET Signed(r) ==
            IF r.ok /\ toks[p].s = <<"-">> THEN Ok(0 - r.v, r.p) ELSE r
    IN  IF IsOp(toks, p, <<"+">>) \/ IsOp(toks, p, <<"-">>)
        THEN Signed(ParseUnary(toks, p + 1))
        ELSE ParsePrimary(toks, p)

\* the rest of a MultiplicativeExpression whose left operand r is parsed
ParseMultiplicativeRest(toks, r) ==
    LET Times(right) ==
            IF right.ok THEN Ok(r.v * right.v, right.p) ELSE Err
    IN  IF r.ok /\ IsOp(toks, r.p, <<"*">>)
        THEN ParseMultiplicativeRest(toks, Times(ParseUnary(toks, r.p + 1)))
        ELSE r

ParseMultiplicative(toks, p) ==
    ParseMultiplicativeRest(toks, ParseUnary(toks, p))

\* the rest of an AdditiveExpression whose left operand r is parsed
ParseAdditiveRest(toks, r) ==
    LET Plus(right) ==
            IF right.ok
            THEN Ok(IF toks[r.p].s = <<"+">> THEN r.v + right.v ELSE r.v - right.v,
                    right.p)
            ELSE Err
    IN  IF r.ok /\ (IsOp(toks, r.p, <<"+">>) \/ IsOp(toks, r.p, <<"-">>))
        THEN ParseAdditiveRest(toks, Plus(ParseMultiplicative(toks, r.p + 1)))
        ELSE r

ParseAdditive(toks, p) ==
    ParseAdditiveRest(toks, ParseMultiplicative(toks, p))

\* Function('"use strict"; return (' + formula + ')')(): the value, or not ok
\* when construction or the call throws (a SyntaxError, or the TypeError of
\* calling a number when a parenthesis follows a complete expression)
EvalFormula(formula) ==
    LET Whole(toks, r) ==
            IF r.ok /\ r.p = Len(toks) + 1 THEN Ok(r.v, r.p) ELSE Err
        Parse(toks) == Whole(toks, ParseAdditive(toks, 1))
    IN  Parse(Tokens(<<"(">> \o formula \o <<")">>, 1))

----------------------------------------------------------------------------
(* The derived pass                                                        *)

Impls == {"FormPreview.tsx", "FormPreview.ts", "DynamicFormBuilder.tsx"}

EmptyMap == [id \in {} |-> ""]

\* this.formData[f.id] || ''
ValueOrEmpty(data, id) ==
    IF id \in DOMAIN data /\ Truthy(data[id]) THEN data[id] ELSE Str(<<>>)

\* the regular-expression source an implementation builds from a label
LabelSource(i, label) ==
    IF i = "FormPreview.ts" THEN escapedLabelPreview(label) ELSE escapedLabel(label)

\* formula.replace(new RegExp(escapedLabel, 'g'), numericValue.toString())
\* for the field f
ReplaceLabel(i, f, data, formula) ==
    ReplaceAll(formula, LabelSource(i, f.label),
               NumberToString(NumericValue(ValueOrEmpty(data, f.id))))

\* the inner forEach without its `f.id !== field.id` test
RECURSIVE SubstituteLabels_includesSelf(_, _, _, _, _, _)
SubstituteLabels_includesSelf(i, fields, field, data, formula, k) ==
    IF k > Len(fields) THEN formula
    ELSE SubstituteLabels_includesSelf(i, fields, field, data,
             ReplaceLabel(i, fields[k], data, formula), k + 1)

\* the inner forEach walking the fields from the last one to the first
RECURSIVE SubstituteLabels_lastFirst(_, _, _, _, _, _)
SubstituteLabels_lastFirst(i, fields, field, data, formula, k) ==
    IF k > Len(fields) THEN formula
    ELSE SubstituteLabels_lastFirst(i, fields, field, data,
             IF fields[Len(fields) + 1 - k].id # field.id
             THEN ReplaceLabel(i, fields[Len(fields) + 1 - k], data, formula)
             ELSE formula,
             k + 1)

\* the inner forEach from field index k on: every field but `field` itself
\* has its label replaced by its numeric value in the formula
RECURSIVE SubstituteLabels(_, _, _, _, _, _)
SubstituteLabels(i, fields, field, data, formula, k) ==
    IF k > Len(fields) THEN formula
    ELSE SubstituteLabels(i, fields, field, data,
             IF fields[k].id # field.id
             THEN ReplaceLabel(i, fields[k], data, formula)
             ELSE formula,
             k + 1)

LogEntry(id, text, outcome) == [id |-> id, text |-> text, outcome |-> outcome]

\* the body of the try block storing the empty string in a derived field
\* whose text is rejected or does not evaluate
StoreDerived_clearsOnFailure(field, st, formula, result) ==
    LET outcome == IF ~WhitelistTest(formula) THEN "rejected"
                   ELSE IF ~result.ok THEN "threw" ELSE "stored"
    IN  [data |-> [x \in DOMAIN st.data \cup {field.id} |->
                      IF x = field.id
                      THEN (IF outcome = "stored"
                            THEN Str(NumberToString(Num(result.v)))
                            ELSE Str(<<>>))
                      ELSE st.data[x]],
         log  |-> st.log \cup {LogEntry(field.id, formula, outcome)}]

\* the body of the try block adding the result to what the field holds
StoreDerived_addsToStored(field, st, formula, result) ==
    IF ~WhitelistTest(formula)
    THEN [data |-> st.data,
          log  |-> st.log \cup {LogEntry(field.id, formula, "rejected")}]
    ELSE IF ~result.ok
    THEN [data |-> st.data,
          log  |-> st.log \cup {LogEntry(field.id, formula, "threw")}]
    ELSE [data |-> [x \in DOMAIN st.data \cup {field.id} |->
                       IF x = field.id
                       THEN Str(NumberToString(Num(result.v + Len(st.data[field.id].s))))
                       ELSE st.data[x]],
          log  |-> st.log \cup {LogEntry(field.id, formula, "stored")}]

\* the body of the try block for the substituted text `formula`, whose
\* evaluation yields `result`; st = [data, log].  The field is stored when
\* the text passes the whitelist and evaluates, and is left alone when the
\* whitelist rejects the text ("rejected") or the evaluation throws into the
\* catch ("threw")
StoreDerived(field, st, formula, result) ==
    IF ~WhitelistTest(formula)
    THEN [data |-> st.data,
          log  |-> st.log \cup {LogEntry(field.id, formula, "rejected")}]
    ELSE IF ~result.ok
    THEN [data |-> st.data,
          log  |-> st.log \cup {LogEntry(field.id, formula, "threw")}]
    ELSE [data |-> [x \in DOMAIN st.data \cup {field.id} |->
                       IF x = field.id
                       THEN Str(NumberToString(Num(result.v)))
                       ELSE st.data[x]],
          log  |-> st.log \cup {LogEntry(field.id, formula, "stored")}]

EvaluateDerived(field, st, formula) ==
    StoreDerived(field, st, formula, EvalFormula(formula))

\* one iteration of the outer forEach
DerivedStep(i, fields, field, st) ==
    IF field.isDerived /\ Len(field.derivedFormula) > 0
    THEN EvaluateDerived(field, st,
             SubstituteLabels(i, fields, field, st.data, field.derivedFormula, 1))
    ELSE st

\* the outer forEach with the try block around the whole loop: the pass ends
\* at the first derived field that is not stored
RECURSIVE DerivedPassFrom_stopsAtFailure(_, _, _, _)
DerivedPassFrom_stopsAtFailure(i, fields, st, k) ==
    LET Continue(next) ==
            IF \E e \in next.log : e.id = fields[k].id /\ e.outcome # "stored"
            THEN next
            ELSE DerivedPassFrom_stopsAtFailure(i, fields, next, k + 1)
    IN  IF k > Len(fields) THEN st
        ELSE Continue(DerivedStep(i, fields, fields[k], st))

\* the outer forEach from field index k on
RECURSIVE DerivedPassFrom(_, _, _, _)
DerivedPassFrom(i, fields, st, k) ==
    IF k > Len(fields) THEN st
    ELSE DerivedPassFrom(i, fields, DerivedStep(i, fields, fields[k], st), k + 1)

\* updateDerivedFields of the FormPreview class and of DynamicFormBuilder;
\* the FormPreview component has no derived pass
updateDerivedFields(i, fields, data) ==
    IF i = "FormPreview.tsx" THEN [data |-> data, log |-> {}]
    ELSE DerivedPassFrom(i, fields, [data |-> data, log |-> {}], 1)

----------------------------------------------------------------------------
(* The preview session                                                     *)

FieldIds(f) == {f.fields[i].id : i \in 1..Len(f.fields)}

\* form.fields.find(f => f.id === fieldId)
FindField(f, fieldId) ==
    f.fields[CHOOSE i \in 1..Len(f.fields) :
                /\ f.fields[i].id = fieldId
                /\ \A j \in 1..(i - 1) : f.fields[j].id # fieldId]

initializeFormData(f) ==
    [id \in FieldIds(f) |->
        IF FindField(f, id).type = "checkbox" THEN Arr(<<>>) ELSE Str(<<>>)]

\* { ...errors, [fieldId]: error }
SetKey(map, key, val) ==
    [x \in DOMAIN map \cup {key} |-> IF x = key THEN val ELSE map[x]]

\* a[0..] without its first occurrence of x (indexOf + splice)
RECURSIVE RemoveFirst(_, _)
RemoveFirst(a, x) ==
    IF Len(a) = 0 THEN <<>>
    ELSE IF a[1] = x THEN Tail(a)
    ELSE <<a[1]>> \o RemoveFirst(Tail(a), x)

\* a.filter(item => item !== x)
RECURSIVE RemoveAll(_, _)
RemoveAll(a, x) ==
    IF Len(a) = 0 THEN <<>>
    ELSE IF a[1] = x THEN RemoveAll(Tail(a), x)
    ELSE <<a[1]>> \o RemoveAll(Tail(a), x)

Includes(a, x) == \E k \in 1..Len(a) : a[k] = x

----------------------------------------------------------------------------
(* Form definitions and entered values of the preview specification        *)

Field(id, type, label, validations, options, isDerived, derivedFormula) ==
    [id |-> id, type |-> type, label |-> label, required |-> FALSE,
     validations |-> validations, options |-> options,
     isDerived |-> isDerived, derivedFormula |-> derivedFormula]

Input(id, label, validations) == Field(id, "text", label, validations, <<>>, FALSE, <<>>)
Derived(id, label, formula)   == Field(id, "number", label, <<>>, <<>>, TRUE, formula)

RequiredRule == Rule("required", FALSE, 0, "This field is required")
MinLengthRule(n) == Rule("minLength", TRUE, n, "Minimum length not met")

Schema(fields) == [fields |-> fields]

\* A, B and the derived C = "A + B"
SumForm ==
    Schema(<< Input("f1", <<"A">>, <<RequiredRule>>),
              Input("f2", <<"B">>, <<>>),
              Derived("f3", <<"C">>, <<"A", " ", "+", " ", "B">>) >>)

\* A, B and the derived C = "A-B"
DifferenceForm ==
    Schema(<< Input("f1", <<"A">>, <<>>),
              Input("f2", <<"B">>, <<MinLengthRule(2)>>),
              Derived("f3", <<"C">>, <<"A", "-", "B">>) >>)

\* a formula the whitelist rejects, next to one it accepts
UnsafeForm ==
    Schema(<< Input("f1", <<"A">>, <<>>),
              Derived("f2", <<"C">>,
                      <<"A", ";", " ", "a", "l", "e", "r", "t", "(", "1", ")">>),
              Derived("f3", <<"D">>, <<"A", " ", "+", " ", "1">>) >>)

\* a formula that passes the whitelist and does not evaluate, next to one that does
UnbalancedForm ==
    Schema(<< Input("f1", <<"A">>, <<RequiredRule>>),
              Derived("f2", <<"C">>, <<"(", "A">>),
              Derived("f3", <<"D">>, <<"A", " ", "*", " ", "2">>) >>)

\* derived fields whose own label occurs in their formula
SelfForm ==
    Schema(<< Input("f1", <<"A">>, <<>>),
              Derived("f2", <<"C">>, <<"C", " ", "+", " ", "A">>),
              Derived("f3", <<"2">>, <<"A", " ", "+", " ", "2">>) >>)

\* labels with regular-expression metacharacters
MetaForm ==
    Schema(<< Input("f1", <<"a", ".", "b">>, <<>>),
              Input("f2", <<"x", "(", "y", ")">>, <<>>),
              Derived("f3", <<"T">>,
                      <<"a", ".", "b", " ", "+", " ", "x", "(", "y", ")">>) >>)

\* a checkbox field among the operands
CheckboxForm ==
    Schema(<< Input("f1", <<"A">>, <<>>),
              Field("f2", "checkbox", <<"K">>, <<RequiredRule>>,
                    << <<"a">>, <<"5">> >>, FALSE, <<>>),
              Derived("f3", <<"C">>, <<"A", " ", "+", " ", "K">>) >>)

\* a derived field that reads a derived field declared after it
ChainForm ==
    Schema(<< Input("f1", <<"A">>, <<>>),
              Derived("f2", <<"C">>, <<"D", " ", "+", " ", "1">>),
              Derived("f3", <<"D">>, <<"A", " ", "+", " ", "1">>) >>)

\* a derived field whose formula names no field
ConstantForm ==
    Schema(<< Input("f1", <<"A">>, <<RequiredRule>>),
              Derived("f2", <<"C">>, <<"2", " ", "*", " ", "3">>),
              Derived("f3", <<"D">>, <<"A", " ", "+", " ", "1">>) >>)

\* two derived fields whose formulas name each other
MutualForm ==
    Schema(<< Input("f1", <<"A">>, <<>>),
              Derived("f2", <<"C">>, <<"D", " ", "*", " ", "0", " ", "+", " ", "A">>),
              Derived("f3", <<"D">>, <<"C", " ", "+", " ", "1">>) >>)

\* an input and a derived field with the same label D, and a derived field
\* C between them; the formulas of C and D name each other's labels
ShadowForm ==
    Schema(<< Input("f1", <<"D">>, <<>>),
              Derived("f2", <<"C">>, <<"D", " ", "+", " ", "1">>),
              Derived("f3", <<"D">>, <<"C", " ", "+", " ", "1">>) >>)

\* the label A is part of the label AB of a field declared after it
SubstringForm ==
    Schema(<< Input("f1", <<"A">>, <<>>),
              Input("f2", <<"A", "B">>, <<>>),
              Derived("f3", <<"T">>, <<"A", "B", " ", "+", " ", "A">>) >>)

\* ChainForm with a required rule on the derived field C
ValidatedChainForm ==
    Schema(<< Input("f1", <<"A">>, <<>>),
              Field("f2", "number", <<"C">>, <<RequiredRule>>, <<>>, TRUE,
                    <<"D", " ", "+", " ", "1">>),
              Derived("f3", <<"D">>, <<"A", " ", "+", " ", "1">>) >>)

\* a derived field whose label is a digit; no formula names a derived field
DigitLabelForm ==
    Schema(<< Input("f1", <<"A">>, <<>>),
              Derived("f2", <<"Y">>, <<"A", " ", "+", " ", "1">>),
              Derived("f3", <<"3">>, <<"A", " ", "+", " ", "2">>) >>)

FormPool == {SumForm, DifferenceForm, UnsafeForm, UnbalancedForm, SelfForm,
             MetaForm, CheckboxForm, ChainForm, ConstantForm, MutualForm,
             ShadowForm, SubstringForm, ValidatedChainForm, DigitLabelForm}

\* what the user types into a text input
TextValues == {<<>>, <<"3">>, <<"4">>, <<"-", "3">>, <<"a", "b">>}

----------------------------------------------------------------------------
(* Handlers of the preview                                                 *)

NoForm == Schema(<<>>)

Init ==
    /\ impl \in Impls
    /\ form = NoForm
    /\ formData = EmptyMap
    /\ formErrors = EmptyMap
    /\ submitResult = "none"
    /\ submitted = EmptyMap
    /\ lastOp = "init"
    /\ lastField = ""
    /\ passLog = {}
    /\ vField = [validations |-> <<>>]
    /\ vValue = Str(<<>>)
    /\ vResult = ""
    /\ vDone = FALSE
    /\ BuilderIdle

\* renderPreview of the FormPreview class ends with updateDerivedFields
\* unless the form has no field; the other two render without a pass
RenderPass(i, f, data) ==
    IF i = "FormPreview.ts" /\ Len(f.fields) > 0
    THEN updateDerivedFields(i, f.fields, data)
    ELSE [data |-> data, log |-> {}]

\* FormPreview.loadForm (class), the useEffect on [form] (component),
\* loadFormForPreview / showPage('preview') (DynamicFormBuilder)
loadForm(def) ==
    LET pass == RenderPass(impl, def, initializeFormData(def))
    IN  /\ form' = def
        /\ formData' = pass.data
        /\ formErrors' = EmptyMap
        /\ passLog' = pass.log
        /\ submitResult' = "none"
        /\ submitted' = EmptyMap
        /\ lastOp' = "loadForm"
        /\ lastField' = ""
        /\ UNCHANGED <<impl, vField, vValue, vResult, vDone>>
        /\ UNCHANGED builderVars

\* a change handler that validates the whole form instead of the one field
handleFieldChange_validatesForm(fieldId, value) ==
    /\ fieldId \in FieldIds(form)
    /\ ~FindField(form, fieldId).isDerived
    /\ LET pass == updateDerivedFields(impl, form.fields, SetKey(formData, fieldId, value))
       IN  /\ formData' = pass.data
           /\ passLog' = pass.log
    /\ formErrors' = validateForm(form.fields, SetKey(formData, fieldId, value))
    /\ submitResult' = "none"
    /\ submitted' = EmptyMap
    /\ lastOp' = "setValue"
    /\ lastField' = fieldId
    /\ UNCHANGED <<impl, form, vField, vValue, vResult, vDone>>
    /\ UNCHANGED builderVars

\* handleFieldChange (both FormPreviews) / handleFormDataChange: the value is
\* stored, the field alone is validated, then the implementation's derived
\* pass runs on the updated map.  Inputs of derived fields are read-only.
handleFieldChange(fieldId, value) ==
    /\ fieldId \in FieldIds(form)
    /\ ~FindField(form, fieldId).isDerived
    /\ LET pass == updateDerivedFields(impl, form.fields, SetKey(formData, fieldId, value))
       IN  /\ formData' = pass.data
           /\ passLog' = pass.log
    /\ formErrors' = SetKey(formErrors, fieldId, validateField(FindField(form, fieldId), value))
    /\ submitResult' = "none"
    /\ submitted' = EmptyMap
    /\ lastOp' = "setValue"
    /\ lastField' = fieldId
    /\ UNCHANGED <<impl, form, vField, vValue, vResult, vDone>>
    /\ UNCHANGED builderVars

\* the array a click on the checkbox of `option` produces
\*  - class: handleCheckboxChange(fieldId, option, checked) on this.formData,
\*    checked being the negation of what renderField rendered
\*  - component: a copy of the current array with the option pushed or its
\*    first occurrence spliced out
\*  - DynamicFormBuilder: PreviewField always receives value = [], so every
\*    box is rendered unchecked and a click sends [option]
CheckboxValue(i, current, option) ==
    LET cur == IF current.t = "arr" THEN current.a ELSE <<>>
    IN  IF i = "DynamicFormBuilder.tsx" THEN Arr(<<option>>)
        ELSE IF i = "FormPreview.tsx"
        THEN (IF Includes(cur, option) THEN Arr(RemoveFirst(cur, option))
              ELSE Arr(Append(cur, option)))
        ELSE (IF Includes(cur, option) THEN Arr(RemoveAll(cur, option))
              ELSE Arr(Append(cur, option)))

handleCheckboxChange(fieldId, option) ==
    /\ fieldId \in FieldIds(form)
    /\ ~FindField(form, fieldId).isDerived
    /\ FindField(form, fieldId).type = "checkbox"
    /\ Includes(FindField(form, fieldId).options, option)
    /\ LET value == CheckboxValue(impl, formData[fieldId], option)
           pass  == updateDerivedFields(impl, form.fields, SetKey(formData, fieldId, value))
       IN  /\ formData' = pass.data
           /\ passLog' = pass.log
           /\ formErrors' = SetKey(formErrors, fieldId,
                                   validateField(FindField(form, fieldId), value))
    /\ submitResult' = "none"
    /\ submitted' = EmptyMap
    /\ lastOp' = "checkbox"
    /\ lastField' = fieldId
    /\ UNCHANGED <<impl, form, vField, vValue, vResult, vDone>>
    /\ UNCHANGED builderVars

\* handleFormSubmit / handleSubmit: the whole form is validated; with an
\* error the submit stops (the class re-renders, which runs its pass), with
\* none the success path receives the value map
handleFormSubmit ==
    /\ Len(form.fields) > 0
    /\ LET errors == validateForm(form.fields, formData)
       IN  /\ formErrors' = errors
           /\ IF hasErrors(errors)
              THEN LET pass == RenderPass(impl, form, formData)
                   IN  /\ submitResult' = "validation-errors"
                       /\ formData' = pass.data
                       /\ passLog' = pass.log
                       /\ submitted' = EmptyMap
              ELSE /\ submitResult' = "success"
                   /\ submitted' = formData
                   /\ passLog' = {}
                   /\ UNCHANGED formData
    /\ lastOp' = "submit"
    /\ lastField' = ""
    /\ UNCHANGED <<impl, form, vField, vValue, vResult, vDone>>
    /\ UNCHANGED builderVars

\* clearForm (the class and DynamicFormBuilder have a Clear Form button)
clearForm ==
    /\ impl # "FormPreview.tsx"
    /\ Len(form.fields) > 0
    /\ LET pass == RenderPass(impl, form, initializeFormData(form))
       IN  /\ formData' = pass.data
           /\ passLog' = pass.log
    /\ formErrors' = EmptyMap
    /\ submitResult' = "none"
    /\ submitted' = EmptyMap
    /\ lastOp' = "clear"
    /\ lastField' = ""
    /\ UNCHANGED <<impl, form, vField, vValue, vResult, vDone>>
    /\ UNCHANGED builderVars

Next ==
    \/ \E def \in FormPool : loadForm(def)
    \/ \E id \in FieldIds(form), s \in TextValues :
          FindField(form, id).type # "checkbox" /\ handleFieldChange(id, Str(s))
    \/ \E id \in FieldIds(form) :
          \E k \in 1..Len(FindField(form, id).options) :
              handleCheckboxChange(id, FindField(form, id).options[k])
    \/ handleFormSubmit
    \/ clearForm

Spec == Init /\ [][Next]_vars

----------------------------------------------------------------------------
(* The form builder: the FormBuilder class (part_000, with storage.ts) and *)
(* the DynamicFormBuilder component (part_001, with its in-memory store)   *)

Apps == {"FormBuilder.ts", "DynamicFormBuilder.tsx"}

\* no preview is running and validateField is not being applied
SessionIdle ==
    /\ impl = "FormPreview.ts"
    /\ form = NoForm
    /\ formData = EmptyMap
    /\ formErrors = EmptyMap
    /\ submitResult = "none"
    /\ submitted = EmptyMap
    /\ lastOp = "init"
    /\ lastField = ""
    /\ passLog = {}
    /\ vField = [validations |-> <<>>]
    /\ vValue = Str(<<>>)
    /\ vResult = ""
    /\ vDone = FALSE

\* the ids generateId returns, in the order it returns them
IdNames == <<"id1", "id2", "id3">>

generateId(n) == IdNames[n]

createEmptyForm == [id |-> "", name |-> "", fields |-> <<>>]

NewFieldLabel == <<"N", "e", "w", " ", "F", "i", "e", "l", "d">>

\* the field object addField creates
NewField(id) == Field(id, "text", NewFieldLabel, <<>>, <<>>, FALSE, <<>>)

\* The identity of a rule object.  An object held by a saved form of the
\* in-memory store is named by that form's id and its place in the form;
\* NoObj is an object that no saved form holds.
Obj(owner, i, j) == [owner |-> owner, field |-> i, rule |-> j]
NoObj == Obj("", 0, 0)

\* the rule object addValidation creates
NewRule(type) ==
    [type     |-> type,
     hasValue |-> type \in {"minLength", "maxLength"},
     value    |-> IF type \in {"minLength", "maxLength"} THEN 1 ELSE 0,
     message  |-> DefaultMessage(type),
     obj      |-> NoObj]

\* the index of fields.find(f => f.id === fieldId), 0 when there is none
FieldIndex(fields, fieldId) ==
    IF \E i \in 1..Len(fields) : fields[i].id = fieldId
    THEN CHOOSE i \in 1..Len(fields) :
            /\ fields[i].id = fieldId
            /\ \A j \in 1..(i - 1) : fields[j].id # fieldId
    ELSE 0

\* parseInt(s): leading white space is skipped and the longest signed digit
\* run is parsed; NaN when there is none
parseInt(s) ==
    LET Run(from, d) ==
            IF SkipDigits(s, d) = d THEN NaN
            ELSE Num((IF s[from] = "-" THEN -1 ELSE 1)
                     * DigitsValue(s, d, SkipDigits(s, d) - 1))
        Signed(from) ==
            IF from <= Len(s) /\ s[from] \in {"+", "-"}
            THEN Run(from, from + 1) ELSE Run(from, from)
    IN  Signed(SkipSpace(s, 1))

\* parseInt(value) || 0
ParseIntOrZero(value) ==
    LET OrZero(x) == IF x.nan THEN 0 ELSE x.n
    IN  OrZero(parseInt(value))

\* value.split(','): the pieces of text from index i on, cur being the piece
\* in progress
RECURSIVE SplitFrom(_, _, _)
SplitFrom(text, i, cur) ==
    IF i > Len(text) THEN <<cur>>
    ELSE IF text[i] = "," THEN <<cur>> \o SplitFrom(text, i + 1, <<>>)
    ELSE SplitFrom(text, i + 1, Append(cur, text[i]))

\* s.trim()
Trim(s) ==
    LET Cut(from, to) == IF from > to THEN <<>> ELSE SubSeq(s, from, to)
    IN  Cut(SkipSpace(s, 1), SkipSpaceBack(s, Len(s)))

\* value.split(',').map(s => s.trim()).filter(s => s)
SplitOptions(text) ==
    LET Trimmed(pieces) == [k \in 1..Len(pieces) |-> Trim(pieces[k])]
    IN  SelectSeq(Trimmed(SplitFrom(text, 1, <<>>)), LAMBDA p : Len(p) > 0)

\* a[0..] without its element at index (splice(index, 1) / filter by index)
RemoveAt(a, index) ==
    [k \in 1..(Len(a) - 1) |-> IF k < index THEN a[k] ELSE a[k + 1]]

\* The write newValidations[index][property] = ... of DynamicFormBuilder's
\* updateValidation acts on the rule object itself: every saved form that
\* holds the object shows the new content.
MutateRules(validations, obj, newRule) ==
    [j \in 1..Len(validations) |->
        IF validations[j].obj = obj THEN newRule ELSE validations[j]]

MutateFields(fields, obj, newRule) ==
    [i \in 1..Len(fields) |->
        [fields[i] EXCEPT !.validations = MutateRules(@, obj, newRule)]]

MutateForms(forms, obj, newRule) ==
    IF obj = NoObj THEN forms
    ELSE [s \in 1..Len(forms) |->
            [forms[s] EXCEPT !.fields = MutateFields(@, obj, newRule)]]

\* addField: a new text field with a generated id is appended
addField ==
    /\ nextId <= Len(IdNames)
    /\ Len(currentForm.fields) < MaxFields
    /\ currentForm' = [currentForm EXCEPT
                          !.fields = Append(@, NewField(generateId(nextId)))]
    /\ nextId' = nextId + 1
    /\ builderOp' = "addField"
    /\ builderResult' = "ok"
    /\ UNCHANGED <<app, savedFormsStorage, localStorage>>
    /\ UNCHANGED sessionVars
    /\ UNCHANGED valVars

\* deleteField: fields.filter(field => field.id !== fieldId)
deleteField(fieldId) ==
    /\ currentForm' = [currentForm EXCEPT
                          !.fields = SelectSeq(@, LAMBDA f : f.id # fieldId)]
    /\ builderOp' = "deleteField"
    /\ builderResult' = "ok"
    /\ UNCHANGED <<app, savedFormsStorage, localStorage, nextId>>
    /\ UNCHANGED sessionVars
    /\ UNCHANGED valVars

\* updateField: the property of the field is set; the class splits an
\* options string into trimmed non-empty pieces (the component's options
\* input does the same before it calls updateField)
updateField(fieldId, property, value) ==
    /\ FieldIndex(currentForm.fields, fieldId) > 0
    /\ currentForm' =
          [currentForm EXCEPT
              !.fields[FieldIndex(currentForm.fields, fieldId)][property] =
                  IF property = "options" /\ app = "FormBuilder.ts"
                  THEN SplitOptions(value) ELSE value]
    /\ builderOp' = "updateField"
    /\ builderResult' = "ok"
    /\ UNCHANGED <<app, savedFormsStorage, localStorage, nextId>>
    /\ UNCHANGED sessionVars
    /\ UNCHANGED valVars

\* addValidation without the duplicate check
addValidation_noDuplicateCheck(fieldId, type) ==
    /\ FieldIndex(currentForm.fields, fieldId) > 0
    /\ builderResult' = "ok"
    /\ currentForm' =
          [currentForm EXCEPT
              !.fields[FieldIndex(currentForm.fields, fieldId)].validations =
                  Append(@, NewRule(type))]
    /\ builderOp' = "addValidation"
    /\ UNCHANGED <<app, savedFormsStorage, localStorage, nextId>>
    /\ UNCHANGED sessionVars
    /\ UNCHANGED valVars

\* addValidation: a rule of a type the field already has is refused with an
\* alert; otherwise the rule is appended with its default message, and with
\* value 1 for minLength and maxLength
addValidation(fieldId, type) ==
    /\ FieldIndex(currentForm.fields, fieldId) > 0
    /\ IF \E k \in 1..Len(currentForm.fields[FieldIndex(currentForm.fields, fieldId)].validations) :
             currentForm.fields[FieldIndex(currentForm.fields, fieldId)].validations[k].type = type
       THEN /\ builderResult' = "rejected"
            /\ UNCHANGED currentForm
       ELSE /\ builderResult' = "ok"
            /\ currentForm' =
                  [currentForm EXCEPT
                      !.fields[FieldIndex(currentForm.fields, fieldId)].validations =
                          Append(@, NewRule(type))]
    /\ builderOp' = "addValidation"
    /\ UNCHANGED <<app, savedFormsStorage, localStorage, nextId>>
    /\ UNCHANGED sessionVars
    /\ UNCHANGED valVars

\* the rule object after rule[property] = value (value: parseInt(value) || 0)
UpdatedRule(rule, property, value) ==
    IF property = "value"
    THEN [rule EXCEPT !.hasValue = TRUE, !.value = ParseIntOrZero(value)]
    ELSE [rule EXCEPT ![property] = value]

\* updateValidation: the class writes into the rule of its own form; the
\* component copies the validations array and writes into the rule object
\* of the copy, which is the object of the original array
updateValidation(fieldId, index, property, value) ==
    /\ FieldIndex(currentForm.fields, fieldId) > 0
    /\ index \in 1..Len(currentForm.fields[FieldIndex(currentForm.fields, fieldId)].validations)
    /\ currentForm' =
          [currentForm EXCEPT
              !.fields[FieldIndex(currentForm.fields, fieldId)].validations[index] =
                  UpdatedRule(@, property, value)]
    /\ savedFormsStorage' =
          IF app = "DynamicFormBuilder.tsx"
          THEN MutateForms(savedFormsStorage,
                   currentForm.fields[FieldIndex(currentForm.fields, fieldId)].validations[index].obj,
                   UpdatedRule(currentForm.fields[FieldIndex(currentForm.fields, fieldId)].validations[index],
                               property, value))
          ELSE savedFormsStorage
    /\ builderOp' = "updateValidation"
    /\ builderResult' = "ok"
    /\ UNCHANGED <<app, localStorage, nextId>>
    /\ UNCHANGED sessionVars
    /\ UNCHANGED valVars

\* removeValidation: validations.splice(index, 1) / filter((_, i) => i !== index)
removeValidation(fieldId, index) ==
    /\ FieldIndex(currentForm.fields, fieldId) > 0
    /\ index \in 1..Len(currentForm.fields[FieldIndex(currentForm.fields, fieldId)].validations)
    /\ currentForm' =
          [currentForm EXCEPT
              !.fields[FieldIndex(currentForm.fields, fieldId)].validations =
                  RemoveAt(@, index)]
    /\ builderOp' = "removeValidation"
    /\ builderResult' = "ok"
    /\ UNCHANGED <<app, savedFormsStorage, localStorage, nextId>>
    /\ UNCHANGED sessionVars
    /\ UNCHANGED valVars

\* what the user does in the field editor
BuilderTypes == {"required", "minLength"}
LabelInputs == {<<"A">>}
ThresholdInputs == {<<"3">>}

\* the validations of the field with this id in the form being edited
ValidationsOf(fieldId) ==
    currentForm.fields[FieldIndex(currentForm.fields, fieldId)].validations

InitBuilder ==
    /\ app \in Apps
    /\ currentForm = createEmptyForm
    /\ savedFormsStorage = <<>>
    /\ localStorage = [k \in {} |-> <<>>]
    /\ nextId = 1
    /\ builderOp = "init"
    /\ builderResult = "none"
    /\ SessionIdle

\* the threshold input is rendered for minLength and maxLength rules only
NextBuilder ==
    \/ addField
    \/ \E id \in FieldIds(currentForm) : deleteField(id)
    \/ \E id \in FieldIds(currentForm), label \in LabelInputs :
          updateField(id, "label", label)
    \/ \E id \in FieldIds(currentForm), type \in BuilderTypes :
          addValidation(id, type)
    \/ \E id \in FieldIds(currentForm), value \in ThresholdInputs :
          \E index \in 1..Len(ValidationsOf(id)) :
              /\ ValidationsOf(id)[index].type \in {"minLength", "maxLength"}
              /\ updateValidation(id, index, "value", value)
    \/ \E id \in FieldIds(currentForm) :
          \E index \in 1..Len(ValidationsOf(id)) : removeValidation(id, index)

SpecBuilder == InitBuilder /\ [][NextBuilder]_vars

----------------------------------------------------------------------------
(* Persistence: StorageManager of storage.ts (localStorage, JSON) and the  *)
(* in-memory StorageManager of DynamicFormBuilder                          *)

SAVED_FORMS == "formBuilder_savedForms"
CURRENT_FORM == "formBuilder_currentForm"

\* a stringify that leaves out the `value` of a rule
stringifyRule_dropsValue(rule) ==
    [type |-> rule.type, message |-> rule.message]

\* JSON.stringify: a document is the tree of the value; an absent property
\* (a rule without `value`) is an absent key, and object identity is not
\* part of a document
stringifyRule(rule) ==
    IF rule.hasValue
    THEN [type |-> rule.type, message |-> rule.message, value |-> rule.value]
    ELSE [type |-> rule.type, message |-> rule.message]

stringifyField(f) ==
    [f EXCEPT !.validations = [k \in 1..Len(@) |-> stringifyRule(@[k])]]

stringifyFields(fields) == [i \in 1..Len(fields) |-> stringifyField(fields[i])]

stringifyForm(f) == [f EXCEPT !.fields = stringifyFields(@)]

stringifyForms(forms) == [s \in 1..Len(forms) |-> stringifyForm(forms[s])]

\* JSON.parse: every object of the result is a new object
parseRule(doc) ==
    [type     |-> doc.type,
     hasValue |-> "value" \in DOMAIN doc,
     value    |-> IF "value" \in DOMAIN doc THEN doc.value ELSE 0,
     message  |-> doc.message,
     obj      |-> NoObj]

parseField(doc) ==
    [doc EXCEPT !.validations = [k \in 1..Len(@) |-> parseRule(@[k])]]

parseFields(docs) == [i \in 1..Len(docs) |-> parseField(docs[i])]

parseForm(doc) == [doc EXCEPT !.fields = parseFields(@)]

parseForms(docs) == [s \in 1..Len(docs) |-> parseForm(docs[s])]

\* StorageManager.getSavedForms of storage.ts on the store
getSavedForms(store) ==
    IF SAVED_FORMS \in DOMAIN store THEN parseForms(store[SAVED_FORMS]) ELSE <<>>

\* StorageManager.getSavedForms() of the running builder
SavedForms(a, store, memory) ==
    IF a = "FormBuilder.ts" THEN getSavedForms(store) ELSE memory

Null == [null |-> TRUE]

\* forms.find(form => form.id === formId) || null
getFormById(forms, formId) ==
    IF \E s \in 1..Len(forms) : forms[s].id = formId
    THEN forms[CHOOSE s \in 1..Len(forms) :
                  /\ forms[s].id = formId
                  /\ \A t \in 1..(s - 1) : forms[t].id # formId]
    ELSE Null

\* StorageManager.loadAutoSavedForm
loadAutoSavedForm(store) ==
    IF CURRENT_FORM \in DOMAIN store THEN parseForm(store[CURRENT_FORM]) ELSE Null

\* the objects of a form that the in-memory store holds, named by the form
OwnRules(validations, owner, i) ==
    [j \in 1..Len(validations) |-> [validations[j] EXCEPT !.obj = Obj(owner, i, j)]]

Own(f) ==
    [f EXCEPT !.fields =
        [i \in 1..Len(@) |-> [@[i] EXCEPT !.validations = OwnRules(@, f.id, i)]]]

\* the FormSchema saveForm of DynamicFormBuilder builds
NewForm(id, name, fields) ==
    [id |-> id, name |-> name, fields |-> parseFields(stringifyFields(fields))]

\* Saving the form being edited: DynamicFormBuilder.saveForm refuses a form
\* without fields, builds a FormSchema with a generated id and a JSON copy
\* of the fields and hands it to StorageManager.saveForm.  storage.ts
\* appends to the parsed list and writes it back; a failing write throws
\* 'Failed to save form'.  The in-memory store pushes the object.
saveForm(name, writeFails) ==
    /\ nextId <= Len(IdNames)
    /\ IF Len(currentForm.fields) = 0
       THEN /\ builderResult' = "rejected"
            /\ UNCHANGED <<savedFormsStorage, localStorage, nextId>>
       ELSE /\ nextId' = nextId + 1
            /\ IF app = "DynamicFormBuilder.tsx"
               THEN /\ savedFormsStorage' =
                          Append(savedFormsStorage,
                                 Own(NewForm(generateId(nextId), name, currentForm.fields)))
                    /\ builderResult' = "ok"
                    /\ UNCHANGED localStorage
               ELSE IF writeFails
               THEN /\ builderResult' = "threw"
                    /\ UNCHANGED <<savedFormsStorage, localStorage>>
               ELSE /\ localStorage' =
                          SetKey(localStorage, SAVED_FORMS,
                                 stringifyForms(
                                     Append(getSavedForms(localStorage),
                                            NewForm(generateId(nextId), name,
                                                    currentForm.fields))))
                    /\ builderResult' = "ok"
                    /\ UNCHANGED savedFormsStorage
    /\ builderOp' = "saveForm"
    /\ UNCHANGED <<app, currentForm>>
    /\ UNCHANGED sessionVars
    /\ UNCHANGED valVars

\* loadFormForEditing: the component makes the saved object itself the
\* current form; FormBuilder.loadForm receives a form parsed from the store
loadFormForEditing(s) ==
    /\ s \in 1..Len(SavedForms(app, localStorage, savedFormsStorage))
    /\ currentForm' = SavedForms(app, localStorage, savedFormsStorage)[s]
    /\ builderOp' = "loadFormForEditing"
    /\ builderResult' = "ok"
    /\ UNCHANGED <<app, savedFormsStorage, localStorage, nextId>>
    /\ UNCHANGED sessionVars
    /\ UNCHANGED valVars

\* a deleteForm that empties the saved collection
deleteForm_clearsAll(formId, writeFails) ==
    /\ IF app = "DynamicFormBuilder.tsx"
       THEN /\ savedFormsStorage' = <<>>
            /\ builderResult' = "ok"
            /\ UNCHANGED localStorage
       ELSE IF writeFails
       THEN /\ builderResult' = "threw"
            /\ UNCHANGED <<savedFormsStorage, localStorage>>
       ELSE /\ localStorage' = SetKey(localStorage, SAVED_FORMS, stringifyForms(<<>>))
            /\ builderResult' = "ok"
            /\ UNCHANGED savedFormsStorage
    /\ builderOp' = "deleteForm"
    /\ UNCHANGED <<app, currentForm, nextId>>
    /\ UNCHANGED sessionVars
    /\ UNCHANGED valVars

\* deleteForm: the forms with another id are kept; storage.ts writes the
\* filtered list back and throws 'Failed to delete form' when the write fails
deleteForm(formId, writeFails) ==
    /\ IF app = "DynamicFormBuilder.tsx"
       THEN /\ savedFormsStorage' = SelectSeq(savedFormsStorage, LAMBDA f : f.id # formId)
            /\ builderResult' = "ok"
            /\ UNCHANGED localStorage
       ELSE IF writeFails
       THEN /\ builderResult' = "threw"
            /\ UNCHANGED <<savedFormsStorage, localStorage>>
       ELSE /\ localStorage' =
                  SetKey(localStorage, SAVED_FORMS,
                         stringifyForms(SelectSeq(getSavedForms(localStorage),
                                                  LAMBDA f : f.id # formId)))
            /\ builderResult' = "ok"
            /\ UNCHANGED savedFormsStorage
    /\ builderOp' = "deleteForm"
    /\ UNCHANGED <<app, currentForm, nextId>>
    /\ UNCHANGED sessionVars
    /\ UNCHANGED valVars

\* autoSaveCurrentForm without its test of form.fields.length
autoSaveCurrentForm_savesEmpty(writeFails) ==
    /\ app = "FormBuilder.ts"
    /\ IF writeFails
       THEN /\ builderResult' = "swallowed"
            /\ UNCHANGED localStorage
       ELSE /\ builderResult' = "ok"
            /\ localStorage' = SetKey(localStorage, CURRENT_FORM, stringifyForm(currentForm))
    /\ builderOp' = "autoSave"
    /\ UNCHANGED <<app, currentForm, savedFormsStorage, nextId>>
    /\ UNCHANGED sessionVars
    /\ UNCHANGED valVars

\* the auto-save timer of the FormBuilder class fires:
\* StorageManager.autoSaveCurrentForm(this.currentForm) writes the form when
\* it has a field; a failing write is caught and logged
autoSaveCurrentForm(writeFails) ==
    /\ app = "FormBuilder.ts"
    /\ IF Len(currentForm.fields) = 0
       THEN /\ builderResult' = "skipped"
            /\ UNCHANGED localStorage
       ELSE IF writeFails
       THEN /\ builderResult' = "swallowed"
            /\ UNCHANGED localStorage
       ELSE /\ builderResult' = "ok"
            /\ localStorage' = SetKey(localStorage, CURRENT_FORM, stringifyForm(currentForm))
    /\ builderOp' = "autoSave"
    /\ UNCHANGED <<app, currentForm, savedFormsStorage, nextId>>
    /\ UNCHANGED sessionVars
    /\ UNCHANGED valVars

\* the page is opened again: the constructor of FormBuilder starts from the
\* auto-saved form if there is one, from the empty form otherwise
initialize ==
    /\ app = "FormBuilder.ts"
    /\ currentForm' = IF loadAutoSavedForm(localStorage) = Null
                      THEN createEmptyForm
                      ELSE loadAutoSavedForm(localStorage)
    /\ builderOp' = "initialize"
    /\ builderResult' = "ok"
    /\ UNCHANGED <<app, savedFormsStorage, localStorage, nextId>>
    /\ UNCHANGED sessionVars
    /\ UNCHANGED valVars

\* what the user does in the storage specification
StorageTypes == {"minLength"}
FormNames == {"n"}

\* the ids of the saved forms, and an id no saved form has
DeleteInputs ==
    {SavedForms(app, localStorage, savedFormsStorage)[s].id :
        s \in 1..Len(SavedForms(app, localStorage, savedFormsStorage))} \cup {"none"}

NextStorage ==
    \/ addField
    \/ \E id \in FieldIds(currentForm) : deleteField(id)
    \/ \E id \in FieldIds(currentForm), type \in StorageTypes :
          addValidation(id, type)
    \/ \E id \in FieldIds(currentForm), value \in ThresholdInputs :
          \E index \in 1..Len(ValidationsOf(id)) :
              updateValidation(id, index, "value", value)
    \/ \E id \in FieldIds(currentForm) :
          \E index \in 1..Len(ValidationsOf(id)) : removeValidation(id, index)
    \/ \E name \in FormNames, writeFails \in BOOLEAN : saveForm(name, writeFails)
    \/ \E s \in 1..Len(SavedForms(app, localStorage, savedFormsStorage)) :
          loadFormForEditing(s)
    \/ \E formId \in DeleteInputs, writeFails \in BOOLEAN : deleteForm(formId, writeFails)
    \/ \E writeFails \in BOOLEAN : autoSaveCurrentForm(writeFails)
    \/ initialize

SpecStorage == InitBuilder /\ [][NextStorage]_vars

----------------------------------------------------------------------------
(* The field editor: type, options and the required switch                 *)

\* the types for which the options input is rendered
OptionTypes == {"select", "radio", "checkbox"}

\* what the user picks and types in the field editor
FieldTypeInputs == {"text", "select", "checkbox"}
OptionInputs == {<<" ", "a", " ", ",", " ", ",", "b", " ">>, <<"a", ",", "a">>}

\* the field with this id in the form being edited
FieldOf(fieldId) == currentForm.fields[FieldIndex(currentForm.fields, fieldId)]

\* the value the options input hands to updateField: the class passes the
\* text, the component the pieces it has split and trimmed
OptionsArgument(text) == IF app = "FormBuilder.ts" THEN text ELSE SplitOptions(text)

NextEditor ==
    \/ addField
    \/ \E id \in FieldIds(currentForm) : deleteField(id)
    \/ \E id \in FieldIds(currentForm), type \in FieldTypeInputs :
          updateField(id, "type", type)
    \/ \E id \in FieldIds(currentForm), text \in OptionInputs :
          /\ FieldOf(id).type \in OptionTypes
          /\ updateField(id, "options", OptionsArgument(text))
    \/ \E id \in FieldIds(currentForm) :
          updateField(id, "required", ~FieldOf(id).required)
    \/ \E id \in FieldIds(currentForm) : addValidation(id, "required")
    \/ \E id \in FieldIds(currentForm) :
          \E index \in 1..Len(ValidationsOf(id)) : removeValidation(id, index)

SpecEditor == InitBuilder /\ [][NextEditor]_vars

----------------------------------------------------------------------------
(* DynamicFormBuilder: the form being edited is the form the preview page  *)
(* shows                                                                   *)

InitBuilderWithPreview ==
    /\ app = "DynamicFormBuilder.tsx"
    /\ impl = "DynamicFormBuilder.tsx"
    /\ currentForm = createEmptyForm
    /\ savedFormsStorage = <<>>
    /\ localStorage = [k \in {} |-> <<>>]
    /\ nextId = 1
    /\ builderOp = "init"
    /\ builderResult = "none"
    /\ form = NoForm
    /\ formData = EmptyMap
    /\ formErrors = EmptyMap
    /\ submitResult = "none"
    /\ submitted = EmptyMap
    /\ lastOp = "init"
    /\ lastField = ""
    /\ passLog = {}
    /\ vField = [validations |-> <<>>]
    /\ vValue = Str(<<>>)
    /\ vResult = ""
    /\ vDone = FALSE

\* showPage('preview'): the preview starts on the form being edited
showPage == loadForm(Schema(currentForm.fields))

\* the preview page is open on the form as it is now
OnPreviewPage == Len(form.fields) > 0 /\ form.fields = currentForm.fields

\* what the user types in the preview of this specification
PreviewInputs == {<<>>, <<"3">>}

NextBuilderWithPreview ==
    \/ addField
    \/ \E id \in FieldIds(currentForm) :
          updateField(id, "required", ~FieldOf(id).required)
    \/ \E id \in FieldIds(currentForm) : addValidation(id, "required")
    \/ \E id \in FieldIds(currentForm) :
          \E index \in 1..Len(ValidationsOf(id)) : removeValidation(id, index)
    \/ showPage
    \/ \E id \in FieldIds(form), s \in PreviewInputs :
          OnPreviewPage /\ handleFieldChange(id, Str(s))
    \/ OnPreviewPage /\ handleFormSubmit

SpecBuilderWithPreview == InitBuilderWithPreview /\ [][NextBuilderWithPreview]_vars

----------------------------------------------------------------------------
(* Claims about validateField (checked under SpecValidate)                 *)

\* the rule's failure condition holds for the value, whatever its message
RuleFails(rule, value) == validateRule([rule EXCEPT !.message = "fails"], value) # ""

FailingRules(field, value) ==
    {i \in 1..Len(field.validations) : RuleFails(field.validations[i], value)}

ReportingRules(field, value) ==
    {i \in FailingRules(field, value) : field.validations[i].message # ""}

MinOf(S) == CHOOSE m \in S : \A k \in S : m <= k

\* C1 (as stated): validateField returns the message of the lowest-index
\* failing rule, or "" when no rule fails.
C1_FirstFailingRule ==
    vDone =>
        vResult = (IF FailingRules(vField, vValue) = {} THEN ""
                   ELSE vField.validations[MinOf(FailingRules(vField, vValue))].message)

\* C1 (amended): validateField returns the message of the lowest-index rule
\* that fails with a non-empty message, or "" when there is no such rule; a
\* failing rule whose message is empty does not stop the walk.
C1_FirstNonEmptyError ==
    vDone =>
        vResult = (IF ReportingRules(vField, vValue) = {} THEN ""
                   ELSE vField.validations[MinOf(ReportingRules(vField, vValue))].message)

\* rules [required, minLength(3)] on "": both fail, the required message is returned
C1_Witness ==
    /\ vDone
    /\ vValue = Str(<<>>)
    /\ vField.validations = << Rule("required", FALSE, 0, "This field is required"),
                               Rule("minLength", TRUE, 3, "Minimum length not met") >>
    /\ Cardinality(ReportingRules(vField, vValue)) = 2
    /\ vResult = "This field is required"

NoRuleOfType(field, type) ==
    \A i \in 1..Len(field.validations) : field.validations[i].type # type

\* C2 (as stated): with no `required` rule among the validations, the empty
\* string passes validateField whatever the thresholds.
C2_EmptyExempt ==
    (vDone /\ vValue = Str(<<>>) /\ NoRuleOfType(vField, "required"))
        => vResult = ""

LengthBoundsAdmitEmpty(field) ==
    \A i \in 1..Len(field.validations) :
        LET r == field.validations[i]
        IN  /\ r.type = "minLength" => RuleValueOrZero(r) <= 0
            /\ r.type = "maxLength" => RuleValueOrZero(r) >= 0

\* C2 (amended): the empty string passes every email and password rule; with
\* no `required` rule, no minLength rule of positive threshold and no
\* maxLength rule of negative threshold, validateField(field, "") is "".
C2_EmptyExemptFromEmailPassword ==
    (vDone /\ vValue = Str(<<>>) /\ NoRuleOfType(vField, "required")
           /\ LengthBoundsAdmitEmpty(vField))
        => vResult = ""

\* an email rule and a password rule with their messages, applied to ""
C2_Witness ==
    /\ vDone
    /\ vValue = Str(<<>>)
    /\ vField.validations =
          << Rule("email", FALSE, 0, "Please enter a valid email address"),
             Rule("password", FALSE, 0, "Password must be at least 8 characters with a number") >>
    /\ vResult = ""

\* the value is the empty string or a sequence with no element
EmptyValue(value) == value = Str(<<>>) \/ value = Arr(<<>>)

\* C18: a required rule fails exactly when the value is the empty string or
\* an empty sequence and then yields its message; a field whose first rule
\* is required reports that message for "" and [], and a field with only a
\* required rule reports no error for any other value (["a"] included)
C18_RequiredSemantics ==
    vDone =>
        \A i \in 1..Len(vField.validations) :
            (vField.validations[i].type = "required") =>
                /\ (RuleFails(vField.validations[i], vValue) <=> EmptyValue(vValue))
                /\ (validateRule(vField.validations[i], vValue) =
                        (IF EmptyValue(vValue) THEN vField.validations[i].message ELSE ""))
                /\ ((i = 1 /\ EmptyValue(vValue) /\ vField.validations[i].message # "")
                        => (vResult = vField.validations[i].message))
                /\ ((Len(vField.validations) = 1 /\ ~EmptyValue(vValue))
                        => (vResult = ""))

\* a required rule on the checkbox value []: its message is the result
C18_Witness ==
    /\ vDone
    /\ vValue = Arr(<<>>)
    /\ vField.validations = << Rule("required", FALSE, 0, "This field is required") >>
    /\ vResult = "This field is required"

\* the threshold of a length rule, 0 when the rule has none
Threshold(rule) == IF rule.hasValue THEN rule.value ELSE 0

TooShort(rule, value) == value.t = "str" /\ Len(value.s) < Threshold(rule)

TooLong(rule, value) == value.t = "str" /\ Len(value.s) > Threshold(rule)

\* C19: a minLength rule fails exactly when the value is a string shorter
\* than the threshold, a maxLength rule exactly when the value is a string
\* longer than the threshold, an absent threshold counting as 0; a field
\* with only that rule reports the rule's message exactly then
C19_LengthBounds ==
    vDone =>
        \A i \in 1..Len(vField.validations) :
            /\ (vField.validations[i].type = "minLength") =>
                  /\ (RuleFails(vField.validations[i], vValue)
                         <=> TooShort(vField.validations[i], vValue))
                  /\ (Len(vField.validations) = 1)
                         => (vResult = (IF TooShort(vField.validations[i], vValue)
                                        THEN vField.validations[i].message ELSE ""))
            /\ (vField.validations[i].type = "maxLength") =>
                  /\ (RuleFails(vField.validations[i], vValue)
                         <=> TooLong(vField.validations[i], vValue))
                  /\ (Len(vField.validations) = 1)
                         => (vResult = (IF TooLong(vField.validations[i], vValue)
                                        THEN vField.validations[i].message ELSE ""))

\* "abc" against minLength 3 and a maxLength rule without threshold: the
\* minLength rule passes at the bound and the maxLength message is reported
C19_Witness ==
    /\ vDone
    /\ vValue = Str(<<"a", "b", "c">>)
    /\ vField.validations = << Rule("minLength", TRUE, 3, "Minimum length not met"),
                               Rule("maxLength", FALSE, 0, "Maximum length exceeded") >>
    /\ vResult = "Maximum length exceeded"

\* C20: on a sequence value no minLength, maxLength, email or password
\* rule fails, whatever its threshold, so validateField returns "" or the
\* message of one of the field's required rules
C20_SequencesFailOnlyRequired ==
    (vDone /\ vValue.t = "arr") =>
        /\ \A i \in 1..Len(vField.validations) :
              (vField.validations[i].type # "required")
                  => /\ ~RuleFails(vField.validations[i], vValue)
                     /\ validateRule(vField.validations[i], vValue) = ""
        /\ \/ vResult = ""
           \/ \E i \in 1..Len(vField.validations) :
                 /\ vField.validations[i].type = "required"
                 /\ vResult = vField.validations[i].message

\* [] against minLength 3 followed by required: the minLength rule passes
\* and the required message is the result
C20_Witness ==
    /\ vDone
    /\ vValue = Arr(<<>>)
    /\ vField.validations = << Rule("minLength", TRUE, 3, "Minimum length not met"),
                               Rule("required", FALSE, 0, "This field is required") >>
    /\ vResult = "This field is required"

----------------------------------------------------------------------------
(* Claims about the derived pass and the preview session (checked under    *)
(* Spec)                                                                   *)

HasPass == impl # "FormPreview.tsx"

DerivedFields(f) ==
    {f.fields[i] : i \in {k \in 1..Len(f.fields) :
                            f.fields[k].isDerived /\ Len(f.fields[k].derivedFormula) > 0}}

\* a decimal integer, as the user types a number
IsNumericText(s) ==
    /\ Len(s) > 0
    /\ LET d == IF s[1] = "-" THEN 2 ELSE 1
       IN  /\ d <= Len(s)
           /\ \A k \in d..Len(s) : s[k] \in Digits
           /\ (Len(s) - d >= 1 => s[d] # "0")

\* the coercion the specification describes: the number a numeric string
\* denotes, 0 for everything else (absent, empty, other text, an array)
CoercedToZero(value) ==
    IF value.t = "str" /\ IsNumericText(value.s) THEN StringToNumber(value.s).n ELSE 0

\* C3: a value that is absent, empty, not numeric or an array enters a
\* formula as 0: with the formula "<label 1> + <label 2>" (SumForm,
\* CheckboxForm) the derived field holds the sum of the coerced operands
\* after a pass that followed an edit.
C3_CoercionToZero ==
    (HasPass /\ lastOp \in {"setValue", "checkbox"} /\ form \in {SumForm, CheckboxForm})
        => formData["f3"] =
              Str(NumberToString(Num(CoercedToZero(formData["f1"])
                                     + CoercedToZero(formData["f2"]))))

\* text occurs in s at index i
OccursAt(s, text, i) ==
    /\ i + Len(text) - 1 <= Len(s)
    /\ \A k \in 1..Len(text) : s[i + k - 1] = text[k]

Occurs(s, text) == \E i \in 1..Len(s) : OccursAt(s, text, i)

\* the formula with the literal occurrences of the other fields' labels
\* replaced, left to right, by the text of the values those fields hold
RECURSIVE WithValues(_, _, _, _, _)
WithValues(fields, field, data, formula, i) ==
    IF i > Len(formula) THEN <<>>
    ELSE LET hits == {k \in 1..Len(fields) :
                        /\ fields[k].id # field.id
                        /\ Len(fields[k].label) > 0
                        /\ OccursAt(formula, fields[k].label, i)}
         IN  IF hits = {}
             THEN <<formula[i]>> \o WithValues(fields, field, data, formula, i + 1)
             ELSE LET k == MinOf(hits)
                  IN  ToStringValue(data[fields[k].id])
                      \o WithValues(fields, field, data, formula, i + Len(fields[k].label))

\* every field whose label the formula mentions holds a numeric string
OperandsNumeric(fields, field, data) ==
    \A k \in 1..Len(fields) :
        (fields[k].id # field.id /\ Occurs(field.derivedFormula, fields[k].label))
            => (data[fields[k].id].t = "str" /\ IsNumericText(data[fields[k].id].s))

\* C4: after a recompute pass, a derived field whose formula is an
\* arithmetic expression over labels of other fields that hold numeric
\* strings holds the text of the value of that expression with the labels
\* replaced by the current values.
C4_DerivedComputation ==
    (HasPass /\ lastOp \in {"setValue", "checkbox"}) =>
        \A d \in DerivedFields(form) :
            LET text == WithValues(form.fields, d, formData, d.derivedFormula, 1)
            IN  (OperandsNumeric(form.fields, d, formData)
                    /\ WhitelistTest(text) /\ EvalFormula(text).ok)
                => formData[d.id] = Str(NumberToString(Num(EvalFormula(text).v)))

\* the formula of d with the other fields' labels replaced literally, field
\* by field in declaration order, by their numeric values
RECURSIVE LiteralSubstitution(_, _, _, _, _)
LiteralSubstitution(fields, field, data, formula, k) ==
    IF k > Len(fields) THEN formula
    ELSE LiteralSubstitution(fields, field, data,
             IF fields[k].id # field.id
             THEN ReplaceFrom(formula, [j \in 1..Len(fields[k].label) |-> Lit(fields[k].label[j])],
                              NumberToString(NumericValue(ValueOrEmpty(data, fields[k].id))), 1)
             ELSE formula,
             k + 1)

\* C5: in every preview implementation, setValue(fieldId, value) stores the
\* value and leaves every derived field whose substituted text passes the
\* whitelist (and evaluates) with the value computed from the edited map.
C5_SetValueRunsDerivedPass ==
    [][lastOp' = "setValue" =>
         LET edited == SetKey(formData, lastField', formData'[lastField'])
         IN  \A d \in DerivedFields(form') :
                LET text == LiteralSubstitution(form'.fields, d, edited, d.derivedFormula, 1)
                IN  (WhitelistTest(text) /\ EvalFormula(text).ok)
                       => formData'[d.id] = Str(NumberToString(Num(EvalFormula(text).v)))
      ]_vars

\* the value a derived field has when the pass of the step starts: the one
\* initializeFormData just stored on load and clear, the stored one otherwise
PrePassValue(id) ==
    IF lastOp' \in {"loadForm", "clear"} THEN Str(<<>>) ELSE formData[id]

\* C6: a derived field whose substituted text has a character outside the
\* whitelist is not evaluated and keeps the value it had before the pass.
C6_UnsafeFormulaRejected ==
    [][\A e \in passLog' :
          ~WhitelistTest(e.text) =>
              /\ e.outcome = "rejected"
              /\ formData'[e.id] = PrePassValue(e.id)
      ]_vars

\* "3 + NaN" is rejected in SumForm and C keeps the 7 of an earlier pass
C6_Witness ==
    /\ form = SumForm
    /\ \E e \in passLog : e.id = "f3" /\ e.outcome = "rejected" /\ ~WhitelistTest(e.text)
    /\ formData["f3"] = Str(<<"7">>)

CharsOf(s) == {s[k] : k \in 1..Len(s)}

Occurrences(s, text) == Cardinality({i \in 1..Len(s) : OccursAt(s, text, i)})

\* characters a substitution can write into a formula
NumberChars == Digits \cup {"-", "N", "a"}

\* C7: a derived field is skipped in its own substitution loop: when its
\* label shares no character with another field's label nor with the text of
\* a number, the label occurs in the substituted text as often as in the
\* formula.
C7_SelfExclusion ==
    \A e \in passLog :
        LET d == FindField(form, e.id)
        IN  (/\ Len(d.label) > 0
             /\ CharsOf(d.label) \cap NumberChars = {}
             /\ \A k \in 1..Len(form.fields) :
                   form.fields[k].id # d.id
                      => CharsOf(form.fields[k].label) \cap CharsOf(d.label) = {})
            => Occurrences(e.text, d.label) = Occurrences(d.derivedFormula, d.label)

\* SelfForm: "C + A" becomes "C + 3"
C7_Witness ==
    /\ form = SelfForm
    /\ formData["f1"] = Str(<<"3">>)
    /\ \E e \in passLog : e.id = "f2" /\ e.text = <<"C", " ", "+", " ", "3">>

\* the value map the pass of the step starts from
PassInput ==
    IF lastOp' \in {"loadForm", "clear"} THEN initializeFormData(form')
    ELSE IF lastOp' \in {"setValue", "checkbox"}
         THEN SetKey(formData, lastField', formData'[lastField'])
    ELSE formData

IndexOfField(f, id) == CHOOSE i \in 1..Len(f.fields) : f.fields[i].id = id

\* the value map the pass has reached when it comes to the derived field d:
\* the fields declared before d hold what the pass leaves in them
SeenBy(d) ==
    [id \in DOMAIN PassInput |->
        IF IndexOfField(form', id) < IndexOfField(form', d.id)
        THEN formData'[id] ELSE PassInput[id]]

\* C8: in every implementation of the pass the text of a derived field after
\* substitution is its formula with exactly the literal occurrences of the
\* other fields' labels replaced by their numeric values, also for labels
\* with regular-expression metacharacters.
C8_LabelsAreLiteral ==
    [][\A e \in passLog' :
          LET d == FindField(form', e.id)
          IN  e.text = LiteralSubstitution(form'.fields, d, SeenBy(d), d.derivedFormula, 1)
      ]_vars

\* C9: a derived field whose substituted text passes the whitelist and does
\* not evaluate keeps its value; the error map gets no entry from it (it is
\* what the handler itself sets) and the handler completes.
C9_EvaluationErrorsSilent ==
    [][\A e \in passLog' :
          e.outcome = "threw" =>
              /\ WhitelistTest(e.text)
              /\ formData'[e.id] = PrePassValue(e.id)
              /\ lastOp' \in {"setValue", "checkbox"} =>
                    /\ \A id \in (DOMAIN formErrors' \cup DOMAIN formErrors) \ {lastField'} :
                          /\ id \in DOMAIN formErrors' /\ id \in DOMAIN formErrors
                          /\ formErrors'[id] = formErrors[id]
                    /\ formErrors'[lastField'] =
                          validateField(FindField(form', lastField'), formData'[lastField'])
              /\ lastOp' = "submit" =>
                    \A id \in DOMAIN formErrors' :
                        formErrors'[id] = validateField(FindField(form, id), formData[id])
      ]_vars

\* DifferenceForm: "3--3" passes the whitelist and throws; C keeps the -1 of
\* an earlier pass
C9_Witness ==
    /\ form = DifferenceForm
    /\ \E e \in passLog : e.id = "f3" /\ e.outcome = "threw"
                          /\ e.text = <<"3", "-", "-", "3">>
    /\ formData["f3"] = Str(<<"-", "1">>)
    /\ lastOp = "setValue"

AllFieldsValid(f, data) ==
    \A i \in 1..Len(f.fields) : validateField(f.fields[i], data[f.fields[i].id]) = ""

\* C10: submit succeeds, handing the current value map to the success path,
\* exactly when validateField is "" for every field on its current value;
\* otherwise it reports a validation failure, the error map becomes the
\* validateForm result and the success path is not invoked.
C10_SubmitGating ==
    [][lastOp' = "submit" =>
         /\ (submitResult' = "success") <=> AllFieldsValid(form, formData)
         /\ AllFieldsValid(form, formData) => submitted' = formData
         /\ ~AllFieldsValid(form, formData) =>
               /\ submitResult' = "validation-errors"
               /\ submitted' = EmptyMap
               /\ DOMAIN formErrors' =
                     {id \in FieldIds(form) :
                         validateField(FindField(form, id), formData[id]) # ""}
               /\ \A id \in DOMAIN formErrors' :
                     formErrors'[id] = validateField(FindField(form, id), formData[id])
      ]_vars

\* SumForm submitted with A empty: refused, the required message is shown
C10_Witness ==
    /\ form = SumForm
    /\ lastOp = "submit"
    /\ submitResult = "validation-errors"
    /\ submitted = EmptyMap
    /\ formErrors = [id \in {"f1"} |-> "This field is required"]

----------------------------------------------------------------------------
(* Claims about loading and resetting the preview                          *)

\* C11: immediately after loadDefinition(def) or reset() every field id of
\* the definition, derived fields included, maps to [] (checkbox) or ""
\* (otherwise), no error entry is non-empty, and reset keeps the definition
C11_PristineSession ==
    [][ lastOp' \in {"loadForm", "clear"}
          => /\ formData' = initializeFormData(form')
             /\ \A id \in DOMAIN formErrors' : formErrors'[id] = ""
             /\ (lastOp' = "clear" => form' = form)
      ]_vars

\* C12: setValue(fieldId, value) sets the error entry of fieldId to
\* validateField(field, value) and keeps every other error entry; in the
\* values it changes only fieldId and derived fields; the definition stays
C12_SetValueFrame ==
    [][ lastOp' \in {"setValue", "checkbox"}
          => /\ form' = form
             /\ lastField' \in DOMAIN formErrors'
             /\ formErrors'[lastField'] =
                    validateField(FindField(form, lastField'), formData'[lastField'])
             /\ \A id \in (DOMAIN formErrors \cup DOMAIN formErrors') \ {lastField'} :
                    /\ id \in DOMAIN formErrors \cap DOMAIN formErrors'
                    /\ formErrors'[id] = formErrors[id]
             /\ \A id \in DOMAIN formData \cup DOMAIN formData' :
                    \/ id = lastField'
                    \/ FindField(form, id).isDerived
                    \/ /\ id \in DOMAIN formData \cap DOMAIN formData'
                       /\ formData'[id] = formData[id]
      ]_vars

\* DifferenceForm: B = "3" has failed minLength(2); then A is set and B's
\* message is still there next to A's empty entry
C12_Witness ==
    /\ form = DifferenceForm
    /\ lastOp = "setValue"
    /\ lastField = "f1"
    /\ formData["f1"] = Str(<<"3">>)
    /\ formErrors = [id \in {"f1", "f2"} |->
                        IF id = "f2" THEN "Minimum length not met" ELSE ""]

----------------------------------------------------------------------------
(* Claims about the builder                                                *)

\* the validations list has at most one rule of each type
OneRulePerType(validations) ==
    \A j, k \in 1..Len(validations) :
        validations[j].type = validations[k].type => j = k

HasRuleOfType(validations, type) ==
    \E k \in 1..Len(validations) : validations[k].type = type

\* C13: after any sequence of builder operations every field's validations
\* list has at most one rule of each kind, and an addValidation for a kind
\* the field already has is rejected and leaves the definition unchanged
C13_OneRulePerKind ==
    /\ [](\A i \in 1..Len(currentForm.fields) :
             OneRulePerType(currentForm.fields[i].validations))
    /\ [][ builderOp' = "addValidation"
             => \A id \in FieldIds(currentForm), type \in ValidationTypes :
                   (HasRuleOfType(ValidationsOf(id), type) /\ addValidation(id, type))
                      => (currentForm' = currentForm /\ builderResult' = "rejected")
         ]_vars

\* minLength was added twice to a field that also has a required rule: the
\* second add was refused and exactly one minLength rule is there
C13_Witness ==
    /\ builderOp = "addValidation"
    /\ builderResult = "rejected"
    /\ Len(currentForm.fields) = 1
    /\ Len(currentForm.fields[1].validations) = 2
    /\ currentForm.fields[1].validations[1].type = "required"
    /\ currentForm.fields[1].validations[2].type = "minLength"

----------------------------------------------------------------------------
(* Claims about persistence (checked under SpecStorage)                    *)

\* the fields as values: which object a rule is plays no part in equality
PlainFields(fields) ==
    [i \in 1..Len(fields) |->
        [fields[i] EXCEPT !.validations =
            [j \in 1..Len(@) |-> [@[j] EXCEPT !.obj = NoObj]]]]

PlainForm(f) == [f EXCEPT !.fields = PlainFields(@)]

PlainForms(forms) == [s \in 1..Len(forms) |-> PlainForm(forms[s])]

\* what list() returns in the current state, as values
ListedForms == PlainForms(SavedForms(app, localStorage, savedFormsStorage))

BuilderEdits == {"addField", "deleteField", "updateField", "addValidation",
                 "updateValidation", "removeValidation"}

\* C15: no builder operation changes what list() and getById return for a
\* saved form, also after that form was loaded for editing
C15_StoredIsolated ==
    [][ builderOp' \in BuilderEdits => ListedForms' = ListedForms ]_vars

\* C16: deleteById(id) removes every saved definition with that id and
\* nothing else: getById(id) is absent afterwards, the other definitions
\* keep their relative order, and without a definition of that id the
\* collection is unchanged
C16_DeleteById ==
    [][ builderOp' = "deleteForm"
          => \A formId \in DeleteInputs, writeFails \in BOOLEAN :
                (deleteForm(formId, writeFails) /\ builderResult' = "ok")
                   => /\ getFormById(ListedForms', formId) = Null
                      /\ ListedForms' = SelectSeq(ListedForms, LAMBDA f : f.id # formId)
                      /\ (getFormById(ListedForms, formId) = Null
                             => ListedForms' = ListedForms)
      ]_vars

\* the first of two saved forms was deleted: the second one is what is left
C16_Witness ==
    /\ builderOp = "deleteForm"
    /\ builderResult = "ok"
    /\ nextId = 4
    /\ Len(ListedForms) = 1
    /\ ListedForms[1].id = "id3"

\* C17 as stated: autoSave(def) overwrites the auto-save slot with def
\* whenever def has a field, leaves the slot when def has none, and never
\* raises
C17_AutoSaveAlwaysPersists ==
    [][ builderOp' = "autoSave"
          => /\ builderResult' # "threw"
             /\ IF Len(currentForm.fields) > 0
                THEN loadAutoSavedForm(localStorage') = PlainForm(currentForm)
                ELSE localStorage' = localStorage
      ]_vars

\* C17: autoSave(def) overwrites the auto-save slot with def when def has
\* a field and the write succeeds, leaves the slot unchanged when def has
\* no field or the write fails, never raises, and nothing else writes the
\* slot: loadAutoSaved returns the last definition with a field whose
\* auto-save write succeeded
C17_AutoSaveBestEffort ==
    [][ /\ (builderOp' = "autoSave")
          => /\ builderResult' \in {"ok", "skipped", "swallowed"}
             /\ (Len(currentForm.fields) = 0) => (builderResult' = "skipped")
             /\ (Len(currentForm.fields) > 0) => (builderResult' # "skipped")
             /\ (builderResult' = "ok")
                   => (loadAutoSavedForm(localStorage') = PlainForm(currentForm))
             /\ (builderResult' # "ok") => (localStorage' = localStorage)
        /\ (builderOp' # "autoSave")
          => (loadAutoSavedForm(localStorage') = loadAutoSavedForm(localStorage))
      ]_vars

\* an auto-save write failed and was swallowed: the slot still holds an
\* older definition, not the one being edited
C17_Witness ==
    /\ builderOp = "autoSave"
    /\ builderResult = "swallowed"
    /\ loadAutoSavedForm(localStorage) # Null
    /\ loadAutoSavedForm(localStorage) # PlainForm(currentForm)
    /\ Len(currentForm.fields) > 0

----------------------------------------------------------------------------
(* Claims about validateForm and the email rule                            *)

\* the ids of the fields whose value fails validateField
FieldsInError(f, data) ==
    {id \in FieldIds(f) : validateField(FindField(f, id), data[id]) # ""}

\* C21: the map validateForm returns (submit stores it as the error map) has
\* a key exactly for the fields whose validateField result on their value
\* is non-empty, and maps each of them to that result
C21_ValidateFormShape ==
    [][ lastOp' = "submit"
          => /\ DOMAIN formErrors' = FieldsInError(form, formData)
             /\ \A id \in FieldsInError(form, formData) :
                   formErrors'[id] = validateField(FindField(form, id), formData[id])
             /\ \A id \in FieldIds(form) \ FieldsInError(form, formData) :
                   id \notin DOMAIN formErrors'
      ]_vars

\* DifferenceForm submitted with B = "3": the map has the one key f2, the
\* valid fields f1 and f3 have none
C21_Witness ==
    /\ form = DifferenceForm
    /\ lastOp = "submit"
    /\ formData["f2"] = Str(<<"3">>)
    /\ DOMAIN formErrors = {"f2"}
    /\ formErrors["f2"] = "Minimum length not met"

\* a non-empty run of characters that are neither white space nor "@"
AddressPart(t) == Len(t) > 0 /\ \A k \in 1..Len(t) : t[k] \notin {" ", "@"}

\* the text is local@domain.tld
LocalAtDomainTld(s) ==
    \E i, j \in 1..Len(s) :
        /\ i < j
        /\ s[i] = "@"
        /\ s[j] = "."
        /\ AddressPart(SubSeq(s, 1, i - 1))
        /\ AddressPart(SubSeq(s, i + 1, j - 1))
        /\ AddressPart(SubSeq(s, j + 1, Len(s)))

BadAddress(value) ==
    value.t = "str" /\ Len(value.s) > 0 /\ ~LocalAtDomainTld(value.s)

\* C22: an email rule fails exactly when the value is a non-empty string
\* that is not local@domain.tld; a field with only that rule reports the
\* rule's message exactly then ("a@b.com" passes, "a@b" fails)
C22_EmailSemantics ==
    vDone =>
        \A i \in 1..Len(vField.validations) :
            (vField.validations[i].type = "email") =>
                /\ (RuleFails(vField.validations[i], vValue) <=> BadAddress(vValue))
                /\ (Len(vField.validations) = 1)
                      => (vResult = (IF BadAddress(vValue)
                                     THEN vField.validations[i].message ELSE ""))

\* "a@b" against an email rule: the rule's message is the result
C22_Witness ==
    /\ vDone
    /\ vValue = Str(<<"a", "@", "b">>)
    /\ vField.validations = << Rule("email", FALSE, 0, "Please enter a valid email address") >>
    /\ vResult = "Please enter a valid email address"

----------------------------------------------------------------------------
(* Claims about the field editor (checked under SpecEditor)                *)

TrimmedOption(option) ==
    /\ Len(option) > 0
    /\ option[1] \notin WhiteSpace
    /\ option[Len(option)] \notin WhiteSpace

\* C23: after any sequence of builder operations a field has options only
\* when its type is select, radio or checkbox, and every option is a
\* non-empty string without leading or trailing white space
C23_OptionsInvariant ==
    \A i \in 1..Len(currentForm.fields) :
        /\ (Len(currentForm.fields[i].options) > 0)
              => (currentForm.fields[i].type \in OptionTypes)
        /\ \A k \in 1..Len(currentForm.fields[i].options) :
              TrimmedOption(currentForm.fields[i].options[k])

----------------------------------------------------------------------------
(* Claims about the order of the derived pass                              *)

\* what the derived field stores when it is computed from the map `data`
ComputedFrom(field, data) ==
    DerivedStep(impl, form.fields, field, [data |-> data, log |-> {}]).data[field.id]

\* two derived fields, each with the other's label in its formula
NameEachOther(d, e) ==
    /\ d.id # e.id
    /\ d.isDerived /\ e.isDerived
    /\ Occurrences(d.derivedFormula, e.label) > 0
    /\ Occurrences(e.derivedFormula, d.label) > 0

\* C24: when two derived fields name each other, a pass computes each of
\* them from the values stored before the pass, never from a value the
\* same pass has written
C24_MutualReadPreviousPass ==
    [][ (lastOp' = "setValue" /\ impl # "FormPreview.tsx")
          => \A k, m \in 1..Len(form.fields) :
                NameEachOther(form.fields[k], form.fields[m])
                   => formData'[form.fields[k].id] = ComputedFrom(form.fields[k], PassInput)
      ]_vars

\* two fields other than d whose labels overlap: one label is part of (or
\* equal to) the other
OverlappingLabels(f, d) ==
    \E k, m \in 1..Len(f.fields) :
        /\ k # m
        /\ f.fields[k].id # d.id /\ f.fields[m].id # d.id
        /\ Len(f.fields[k].label) > 0
        /\ Occurs(f.fields[m].label, f.fields[k].label)

\* C25: in the recomputation of a derived field the labels are replaced
\* globally, one field at a time in declaration order; with overlapping
\* labels the field declared first takes the overlapping text, and the
\* substituted text is a function of the definition and the values
C25_DeclarationOrder ==
    [][ \A e \in passLog' :
          OverlappingLabels(form', FindField(form', e.id))
             => e.text = LiteralSubstitution(form'.fields, FindField(form', e.id),
                                             SeenBy(FindField(form', e.id)),
                                             FindField(form', e.id).derivedFormula, 1)
      ]_vars

\* SubstringForm with A = "3" and AB = "4": the A of "AB + A" was taken by
\* the field declared first, the text "3B + 3" is what the whitelist sees
C25_Witness ==
    /\ form = SubstringForm
    /\ formData["f1"] = Str(<<"3">>)
    /\ formData["f2"] = Str(<<"4">>)
    /\ \E e \in passLog :
          /\ e.id = "f3"
          /\ e.text = <<"3", "B", " ", "+", " ", "3">>
          /\ e.outcome = "rejected"

----------------------------------------------------------------------------
(* Claims about the error map of the preview session                       *)

\* C26: in every reachable state of a preview session each non-empty entry
\* of the error map is validateField of that field on its current value,
\* derived fields included
C26_ErrorsMatchValues ==
    \A id \in DOMAIN formErrors :
        (formErrors[id] # "")
            => (/\ id \in FieldIds(form)
                /\ formErrors[id] = validateField(FindField(form, id), formData[id]))

----------------------------------------------------------------------------
(* Claims about checkbox fields                                            *)

\* the options a checkbox value holds
Selected(value) == IF value.t = "arr" THEN {value.a[k] : k \in 1..Len(value.a)} ELSE {}

NoDuplicates(a) == \A j, k \in 1..Len(a) : a[j] = a[k] => j = k

\* C27: a click on the box of an option checks it when it was unchecked
\* and unchecks it when it was checked, so the value holds exactly the
\* checked options, each once: the click adds or removes that option and
\* leaves the others in the value
C27_CheckboxTracksChecked ==
    [][ lastOp' = "checkbox"
          => /\ formData'[lastField'].t = "arr"
             /\ NoDuplicates(formData'[lastField'].a)
             /\ \E k \in 1..Len(FindField(form, lastField').options) :
                   LET option == FindField(form, lastField').options[k]
                       before == Selected(formData[lastField'])
                   IN  Selected(formData'[lastField']) =
                          (IF option \in before THEN before \ {option}
                           ELSE before \cup {option})
      ]_vars

----------------------------------------------------------------------------
(* Claims about the derived pass as a whole                                *)

\* the derived fields the pass has to look at
WithFormula(f) == {d \in DerivedFields(f) : Len(d.derivedFormula) > 0}

\* C28: in a pass where the text of some derived field is rejected by the
\* whitelist or does not evaluate, that field keeps its value and every
\* other derived field with a formula is still processed: it is stored
\* exactly when its own text passes the whitelist and evaluates, and then
\* holds the value of its text
C28_BadFormulaDoesNotBlock ==
    [][ (\E bad \in passLog' : bad.outcome \in {"rejected", "threw"})
          => /\ \A bad \in passLog' :
                   (bad.outcome \in {"rejected", "threw"})
                      => (formData'[bad.id] = PassInput[bad.id])
             /\ \A d \in WithFormula(form') :
                   \E e \in passLog' :
                       /\ e.id = d.id
                       /\ (e.outcome = "stored")
                             <=> (WhitelistTest(e.text) /\ EvalFormula(e.text).ok)
                       /\ (e.outcome = "stored")
                             => (formData'[d.id] = Str(NumberToString(Num(EvalFormula(e.text).v))))
      ]_vars

\* UnsafeForm with A = "4": C is rejected and keeps "", D declared after it
\* is stored as "5"
C28_Witness ==
    /\ form = UnsafeForm
    /\ lastOp = "setValue"
    /\ formData["f1"] = Str(<<"4">>)
    /\ formData["f2"] = Str(<<>>)
    /\ formData["f3"] = Str(<<"5">>)
    /\ \E e \in passLog : e.id = "f2" /\ e.outcome = "rejected"
    /\ \E e \in passLog : e.id = "f3" /\ e.outcome = "stored"

\* no derived field's formula contains the label of another derived field
NoDerivedOperand(f) ==
    \A d, e \in DerivedFields(f) :
        (d.id # e.id) => ~Occurs(d.derivedFormula, e.label)

\* no derived field's label can occur in the text of a number
PlainDerivedLabels(f) ==
    \A d \in DerivedFields(f) :
        Len(d.label) > 0 /\ CharsOf(d.label) \cap NumberChars = {}

\* a second run of the pass on the current values changes nothing
SecondPassChangesNothing ==
    updateDerivedFields(impl, form.fields, formData).data = formData

----------------------------------------------------------------------------
(* Claims about the required switch (checked under SpecBuilderWithPreview) *)

\* the result of the validations list alone on the value
RulesResult(field, value) == validateFieldFrom(field.validations, value, 1)

\* a field flagged required that has no required rule
FlaggedOnly(field) == field.required /\ NoRuleOfType(field, "required")

====
